---- MODULE Spec2Model ----
(***************************************************************************)
(* A model of the Sonatina IR core: the type store, the Type entity index, *)
(* the global-variable store, the module builder, the control-flow graph   *)
(* with its post-order iterator, the order on types, the shared module     *)
(* context, the text of global variables, the construction of functions,   *)
(* the ordered predecessor and successor sets of a block, the accessors    *)
(* of compound types and the locking done while a type is rendered.        *)
(*                                                                         *)
(* Each component has its own specification (SpecTy, SpecIdx, SpecGv,      *)
(* SpecMb, SpecCfg, SpecCompute, SpecPo, SpecDag, SpecCmp, SpecOrder,      *)
(* SpecCtx, SpecDisp, SpecFn, SpecExits, SpecOrd, SpecAcc, SpecRnd); a     *)
(* component's actions leave the variables of the other components         *)
(* unchanged.                                                              *)
(***************************************************************************)
EXTENDS Integers, Sequences, FiniteSets, TLC

VARIABLES
    \* TypeStore (crates/ir/src/types.rs)
    compounds,        \* PrimaryMap<CompoundType, CompoundTypeData>: handle h is element h + 1
    rev_types,        \* FxHashMap<CompoundTypeData, CompoundType>
    struct_types,     \* IndexMap<String, CompoundType>: entries in insertion order
    debug_assertions, \* whether the build keeps debug_assert! (fixed per run)
    struct_decls,     \* the make_struct calls that returned, in order, each once
    ty_last,          \* the last type-store call and its outcome
    \* SecondaryMap<Type, V> keyed through EntityRef for Type
    ty_map,           \* slot index -> value stored
    ty_keys,          \* Type -> the value last written under that key
    idx_last,         \* the last entity-index operation
    \* GlobalVariableStore (crates/ir/src/global_variable.rs)
    gv_data,          \* PrimaryMap<GlobalVariable, GlobalVariableData>
    symbols,          \* FxHashMap<String, GlobalVariable>
    gv_made,          \* the data of the make_gv calls that returned, in call order
    gv_handles,       \* the handles those calls returned, in call order
    gv_last,          \* the last make_gv call and its outcome
    \* ModuleBuilder (crates/codegen/src/ir/builder/module_builder.rs)
    funcs,            \* PrimaryMap<FuncRef, Function>
    declared_funcs,   \* FxHashMap<String, FuncRef>
    mb_last,          \* the last builder call and its outcome
    \* ControlFlowGraph (crates/ir/src/cfg.rs)
    cfg_entry,        \* PackedOption<BlockId>
    cfg_blocks,       \* SecondaryMap<BlockId, BlockNode>
    cfg_exits,        \* SmallVec<[BlockId; 8]>
    cfg_func,         \* the function the CFG was last computed from, while untouched since
    cfg_last,         \* the last CFG operation
    cfg_stale,        \* compute dropped an entry, an edge and an exit the CFG held before
    \* CfgPostOrder
    po_stack,         \* Vec<BlockId>
    po_state,         \* SecondaryMap<BlockId, NodeState>
    po_out,           \* the blocks yielded so far, in order
    po_pc,            \* "idle", "iter" (iterator created), "done" (next() returned None),
                      \* "diverged" (next() did not return within the step budget)
    \* PartialOrd for Type
    cmp_last,         \* the last comparison and its result
    \* ModuleCtx shared by threads (crates/ir/src/module.rs)
    ctx_lock,         \* per store, the state of its RwLock
    ctx_th,           \* per thread, where it is in a with_* call
    ctx_log,          \* the make_* results completed so far: data, handle, first thread
    \* Display of global variables
    disp_last,        \* the last global variable rendered and its text
    \* Function::new
    fn_last,          \* the last function constructed
    \* A ControlFlowGraph with its BTreeSets kept as the sequences they iterate as
    ord_entry,        \* PackedOption<BlockId>
    ord_blocks,       \* per block, preds and succs in iteration order
    ord_last,         \* the last edge operation
    \* Threads rendering types and global variables through one ModuleCtx
    rnd_lock,         \* per store, its RwLock: read guards held per thread, writer, waiting writers
    rnd_th,           \* per thread, where it is in a rendering or a with_*_store_mut call
    writer_priority   \* whether the platform's RwLock holds back readers while a writer waits

tyVars  == <<compounds, rev_types, struct_types, debug_assertions, struct_decls, ty_last>>
idxVars == <<ty_map, ty_keys, idx_last>>
gvVars  == <<gv_data, symbols, gv_made, gv_handles, gv_last>>
mbVars  == <<funcs, declared_funcs, mb_last>>
cfgVars == <<cfg_entry, cfg_blocks, cfg_exits, cfg_func, cfg_last, cfg_stale>>
poVars  == <<po_stack, po_state, po_out, po_pc>>
ctxVars == <<ctx_lock, ctx_th, ctx_log>>
ordVars == <<ord_entry, ord_blocks, ord_last>>
rndVars == <<rnd_lock, rnd_th, writer_priority>>
extVars == <<ordVars, rndVars>>
otherVars == <<cmp_last, ctxVars, disp_last, fn_last, extVars>>
vars    == <<tyVars, idxVars, gvVars, mbVars, cfgVars, poVars, otherVars>>

(***************************************************************************)
(* Small helpers on maps and sequences.                                    *)
(***************************************************************************)
\* Option::None / PackedOption's reserved value, for handles and indices.
None == -1

\* Option<Type>::None.
NoType == <<"None", 0>>

EmptyMap == [x \in {} |-> None]

\* HashMap::insert: adds the key or replaces its value.
MapInsert(m, k, v) == [x \in (DOMAIN m) \cup {k} |-> IF x = k THEN v ELSE m[x]]

\* HashMap::get(..).copied(): None when the key is absent.
MapGet(m, k) == IF k \in DOMAIN m THEN m[k] ELSE None

Range(s) == {s[i] : i \in 1..Len(s)}

\* All sequences over S of length at most n.
SeqsUpTo(S, n) == UNION {[1..k -> S] : k \in 0..n}

(***************************************************************************)
(* Type and CompoundTypeData.                                              *)
(***************************************************************************)
\* enum Type: a primitive is <<tag, 0>>, Compound(c) carries the handle's index.
I1   == <<"I1", 0>>
I8   == <<"I8", 0>>
I16  == <<"I16", 0>>
I32  == <<"I32", 0>>
I64  == <<"I64", 0>>
I128 == <<"I128", 0>>
I256 == <<"I256", 0>>
Void == <<"Void", 0>>
Compound(c) == <<"Compound", c>>

IntegralTypes == {I1, I8, I16, I32, I64, I128, I256}
PrimitiveTypes == IntegralTypes \cup {Void}

\* enum CompoundTypeData, one record shape for the three variants.
Ptr(ty) ==
    [kind |-> "Ptr", elem |-> ty, len |-> 0, name |-> "", fields |-> <<>>, packed |-> FALSE]
Array(elem, len) ==
    [kind |-> "Array", elem |-> elem, len |-> len, name |-> "", fields |-> <<>>, packed |-> FALSE]
Struct(name, fields, packed) ==
    [kind |-> "Struct", elem |-> Void, len |-> 0, name |-> name, fields |-> fields, packed |-> packed]

(***************************************************************************)
(* TypeStore.  A store value is a record of its three fields; operations   *)
(* return the store after the call together with the call's result.        *)
(***************************************************************************)
MaxCompounds == 2

TypeStoreDefault == [compounds |-> <<>>, rev_types |-> EmptyMap, struct_types |-> <<>>]

TheTypeStore ==
    [compounds |-> compounds, rev_types |-> rev_types, struct_types |-> struct_types]

\* mutant: always allocates, never consults the reverse map
make_compound_no_lookup(s, data) ==
    [s   |-> [s EXCEPT !.compounds = Append(@, data),
                       !.rev_types = MapInsert(@, data, Len(s.compounds))],
     ret |-> Len(s.compounds)]

make_compound(s, data) ==
    IF data \in DOMAIN s.rev_types
    THEN [s |-> s, ret |-> s.rev_types[data]]
    ELSE [s   |-> [s EXCEPT !.compounds = Append(@, data),
                            !.rev_types = MapInsert(@, data, Len(s.compounds))],
          ret |-> Len(s.compounds)]

make_ptr(s, ty) ==
    LET r == make_compound(s, Ptr(ty))
    IN  [s |-> r.s, ret |-> Compound(r.ret), aborted |-> FALSE]

make_array(s, elem, len) ==
    LET r == make_compound(s, Array(elem, len))
    IN  [s |-> r.s, ret |-> Compound(r.ret), aborted |-> FALSE]

\* IndexMap keys, and IndexMap::insert (an existing key keeps its position).
StructNamesOf(st) == {st[i].name : i \in 1..Len(st)}

\* mutant: a new key goes to the front
IndexMapInsert_front(st, name, c) ==
    IF name \in StructNamesOf(st)
    THEN [i \in 1..Len(st) |-> IF st[i].name = name THEN [name |-> name, ty |-> c] ELSE st[i]]
    ELSE <<[name |-> name, ty |-> c]>> \o st

IndexMapInsert(st, name, c) ==
    IF name \in StructNamesOf(st)
    THEN [i \in 1..Len(st) |-> IF st[i].name = name THEN [name |-> name, ty |-> c] ELSE st[i]]
    ELSE Append(st, [name |-> name, ty |-> c])

\* make_struct: make_compound runs before the debug_assert!, which only a
\* build with debug assertions evaluates.
make_struct(s, name, fields, packed, debug) ==
    LET r == make_compound(s, Struct(name, fields, packed))
    IN  IF debug /\ name \in StructNamesOf(r.s.struct_types)
        THEN [s |-> r.s, ret |-> NoType, aborted |-> TRUE]
        ELSE [s       |-> [r.s EXCEPT !.struct_types = IndexMapInsert(@, name, r.ret)],
              ret     |-> Compound(r.ret),
              aborted |-> FALSE]

resolve_compound(s, c) == s.compounds[c + 1]

\* struct_def: Some(def) for a struct type, None for every other type
NoStructData == [kind |-> "None", elem |-> Void, len |-> 0, name |-> "", fields |-> <<>>,
                 packed |-> FALSE]

struct_def(s, ty) ==
    IF ty[1] = "Compound" /\ resolve_compound(s, ty[2]).kind = "Struct"
    THEN resolve_compound(s, ty[2])
    ELSE NoStructData

\* array_def: Some((elem, len)) for an array type, None for every other type
NoArrayDef == <<NoType, 0>>

array_def(s, ty) ==
    IF ty[1] = "Compound" /\ resolve_compound(s, ty[2]).kind = "Array"
    THEN <<resolve_compound(s, ty[2]).elem, resolve_compound(s, ty[2]).len>>
    ELSE NoArrayDef

\* mutant: the element type of an array is returned as well
deref_any_elem(s, ptr) ==
    IF ptr[1] = "Compound" /\ resolve_compound(s, ptr[2]).kind \in {"Ptr", "Array"}
    THEN resolve_compound(s, ptr[2]).elem
    ELSE NoType

\* deref: Some(pointee) for a pointer type, None for every other type
deref(s, ptr) ==
    IF ptr[1] = "Compound" /\ resolve_compound(s, ptr[2]).kind = "Ptr"
    THEN resolve_compound(s, ptr[2]).elem
    ELSE NoType

\* all_struct_data: the values of struct_types in IndexMap order, resolved
all_struct_data(s) ==
    [i \in 1..Len(s.struct_types) |-> resolve_compound(s, s.struct_types[i].ty)]

struct_type_by_name(s, name) ==
    LET hit == {i \in 1..Len(s.struct_types) : s.struct_types[i].name = name}
    IN  IF hit = {} THEN NoType ELSE Compound(s.struct_types[CHOOSE i \in hit : TRUE].ty)

(***************************************************************************)
(* Type-store actions.  Arguments are drawn from the primitive types       *)
(* PrimArgs, the compound types issued so far, ArrayLens, StructNames and  *)
(* FieldLists.  A call that would allocate is taken only below             *)
(* MaxCompounds.                                                           *)
(***************************************************************************)
PrimArgs == {I32, I64}
ArrayLens == {2, 3}
StructNames == {"Pair", "Foo"}
FieldLists == {<<>>, <<I32>>, <<I32, I64>>}

ArgTypes == PrimArgs \cup {Compound(c) : c \in 0..(Len(compounds) - 1)}

\* The lowest handle whose data equals `data`, found by scanning the arena.
FirstHandle(s, data) ==
    LET hit == {i \in 1..Len(s.compounds) : s.compounds[i] = data}
    IN  IF hit = {} THEN None ELSE (CHOOSE i \in hit : \A j \in hit : i <= j) - 1

CanIntern(data) == data \in DOMAIN rev_types \/ Len(compounds) < MaxCompounds

TyApply(op, data, r) ==
    /\ compounds' = r.s.compounds
    /\ rev_types' = r.s.rev_types
    /\ struct_types' = r.s.struct_types
    /\ ty_last' = [op       |-> op,
                   aborted  |-> r.aborted,
                   ret      |-> r.ret,
                   first    |-> FirstHandle(TheTypeStore, data),
                   n_before |-> Len(compounds),
                   dup      |-> op = "make_struct" /\ data.name \in StructNamesOf(struct_types)]
    /\ struct_decls' =
            LET d == [data |-> data, ret |-> r.ret]
            IN  IF op = "make_struct" /\ ~r.aborted /\ d \notin Range(struct_decls)
                THEN Append(struct_decls, d)
                ELSE struct_decls
    /\ UNCHANGED <<debug_assertions, idxVars, gvVars, mbVars, cfgVars, poVars, otherVars>>

MakePtr ==
    \E ty \in ArgTypes :
        /\ CanIntern(Ptr(ty))
        /\ TyApply("make_ptr", Ptr(ty), make_ptr(TheTypeStore, ty))

\* make_array with its length drawn from the given set
MakeArrayOf(lens) ==
    \E elem \in ArgTypes, len \in lens :
        /\ CanIntern(Array(elem, len))
        /\ TyApply("make_array", Array(elem, len), make_array(TheTypeStore, elem, len))

MakeArray == MakeArrayOf(ArrayLens)

\* make_array of three elements
MakeArrayOfThree == MakeArrayOf({3})

\* make_struct with its arguments drawn from the given sets
MakeStructOf(names, lists, flags) ==
    \E name \in names, fields \in lists, packed \in flags :
        /\ CanIntern(Struct(name, fields, packed))
        /\ TyApply("make_struct", Struct(name, fields, packed),
                   make_struct(TheTypeStore, name, fields, packed, debug_assertions))

MakeStruct == MakeStructOf(StructNames, FieldLists, BOOLEAN)

\* make_struct of unpacked structs with at most one field
MakeStructPlain == MakeStructOf(StructNames, {<<>>, <<I32>>}, {FALSE})

\* make_compound called directly (it is public), on any of the three kinds
MakeCompound ==
    \E data \in {Ptr(ty) : ty \in ArgTypes}
                \cup {Array(elem, len) : elem \in ArgTypes, len \in ArrayLens}
                \cup {Struct(name, fields, packed) :
                        name \in StructNames, fields \in FieldLists, packed \in BOOLEAN} :
        LET r == make_compound(TheTypeStore, data)
        IN  /\ CanIntern(data)
            /\ TyApply("make_compound", data,
                       [s |-> r.s, ret |-> Compound(r.ret), aborted |-> FALSE])

TyLastInit ==
    [op |-> "new", aborted |-> FALSE, ret |-> NoType, first |-> None, n_before |-> 0,
     dup |-> FALSE]

InitTyStore ==
    /\ compounds = TypeStoreDefault.compounds
    /\ rev_types = TypeStoreDefault.rev_types
    /\ struct_types = TypeStoreDefault.struct_types
    /\ struct_decls = <<>>
    /\ ty_last = TyLastInit

(***************************************************************************)
(* EntityRef for Type, and a SecondaryMap keyed by Type (the use the test  *)
(* type_as_entity makes of it).                                            *)
(***************************************************************************)
CompoundBase == 256

\* fn index(self) -> usize
type_index(t) ==
    CASE t = Void -> 0
      [] t = I1 -> 1
      [] t = I8 -> 8
      [] t = I16 -> 16
      [] t = I32 -> 32
      [] t = I64 -> 64
      [] t = I128 -> 128
      [] t = I256 -> 256
      [] OTHER -> CompoundBase + t[2]

\* fn new(i: usize) -> Self; the last arm is unreachable!()
type_new(i) ==
    CASE i = 0 -> Void
      [] i = 1 -> I1
      [] i = 8 -> I8
      [] i = 16 -> I16
      [] i = 32 -> I32
      [] i = 64 -> I64
      [] i = 128 -> I128
      [] i = 256 -> I256
      [] i > 256 -> Compound(i - CompoundBase)
      [] OTHER -> <<"unreachable", i>>

\* SecondaryMap: map[k] = v stores at slot k.index(); map[k] reads that slot,
\* the default value when the slot was never written.
MapDefault == 0
secondary_set(m, t, v) == MapInsert(m, type_index(t), v)
secondary_get(m, t) == IF type_index(t) \in DOMAIN m THEN m[type_index(t)] ELSE MapDefault

MaxSlots == 2
MapValues == {1, 2}

\* The types a program can hold: the primitives and every handle a store of
\* MaxCompounds compound types issues (the first one is CompoundType(0)).
AllTypes == PrimitiveTypes \cup {Compound(c) : c \in 0..(MaxCompounds - 1)}

MapSet ==
    \E t \in AllTypes, v \in MapValues :
        /\ type_index(t) \in DOMAIN ty_map \/ Cardinality(DOMAIN ty_map) < MaxSlots
        /\ ty_map' = secondary_set(ty_map, t, v)
        /\ ty_keys' = MapInsert(ty_keys, t, v)
        /\ idx_last' = [op |-> "set", ty |-> t, index |-> type_index(t),
                        back |-> type_new(type_index(t))]
        /\ UNCHANGED <<tyVars, gvVars, mbVars, cfgVars, poVars, otherVars>>

\* The round trip on its own: Type::new(t.index()).
TypeRoundTrip ==
    \E t \in AllTypes :
        /\ idx_last' = [op |-> "key", ty |-> t, index |-> type_index(t),
                        back |-> type_new(type_index(t))]
        /\ UNCHANGED <<ty_map, ty_keys, tyVars, gvVars, mbVars, cfgVars, poVars, otherVars>>

InitIdx ==
    /\ ty_map = EmptyMap
    /\ ty_keys = EmptyMap
    /\ idx_last = [op |-> "new", ty |-> Void, index |-> 0, back |-> Void]

(***************************************************************************)
(* GlobalVariableStore.                                                    *)
(***************************************************************************)
MaxGvs == 2

GvStoreDefault == [gv_data |-> <<>>, symbols |-> EmptyMap]

TheGvStore == [gv_data |-> gv_data, symbols |-> symbols]

\* Option<ConstantValue>: None, or Some of an Immediate, an Array or a Struct.
NoData == [kind |-> "None", imm |-> 0, elems |-> <<>>]
Immediate(n) == [kind |-> "Immediate", imm |-> n, elems |-> <<>>]
ConstArray(elems) == [kind |-> "Array", imm |-> 0, elems |-> elems]
ConstStruct(elems) == [kind |-> "Struct", imm |-> 0, elems |-> elems]

GlobalVariableData(symbol, ty, linkage, is_const, data) ==
    [symbol |-> symbol, ty |-> ty, linkage |-> linkage, is_const |-> is_const, data |-> data]

\* mutant: registers the data without looking the symbol up
make_gv_unchecked(s, d) ==
    [s       |-> [gv_data |-> Append(s.gv_data, d),
                  symbols |-> MapInsert(s.symbols, d.symbol, Len(s.gv_data))],
     ret     |-> Len(s.gv_data),
     aborted |-> FALSE]

\* mutant: a symbol already registered has its data replaced
make_gv_replace(s, d) ==
    IF d.symbol \in DOMAIN s.symbols
    THEN [s       |-> [s EXCEPT !.gv_data[s.symbols[d.symbol] + 1] = d],
          ret     |-> s.symbols[d.symbol],
          aborted |-> FALSE]
    ELSE [s       |-> [gv_data |-> Append(s.gv_data, d),
                       symbols |-> MapInsert(s.symbols, d.symbol, Len(s.gv_data))],
          ret     |-> Len(s.gv_data),
          aborted |-> FALSE]

make_gv(s, d) ==
    IF d.symbol \in DOMAIN s.symbols
    THEN [s |-> s, ret |-> None, aborted |-> TRUE]
    ELSE [s       |-> [gv_data |-> Append(s.gv_data, d),
                       symbols |-> MapInsert(s.symbols, d.symbol, Len(s.gv_data))],
          ret     |-> Len(s.gv_data),
          aborted |-> FALSE]

\* gv_data(gv), init_data(gv), is_const(gv), ty(gv): reads of the arena
gv_data_of(s, gv) == s.gv_data[gv + 1]
gv_init_data(s, gv) == s.gv_data[gv + 1].data
gv_is_const(s, gv) == s.gv_data[gv + 1].is_const
gv_ty(s, gv) == s.gv_data[gv + 1].ty

gv_by_symbol(s, symbol) == MapGet(s.symbols, symbol)

\* all_gv_data: the values of the arena, in key order
all_gv_data(s) == s.gv_data

GvSymbols == {"foo", "bar", "baz"}
GvInputs ==
    {GlobalVariableData(sym, I32, l, c, d) :
        sym \in GvSymbols, l \in {"Public", "Private"}, c \in BOOLEAN,
        d \in {NoData, Immediate(1618)}}

\* The handles whose stored data carries `symbol`, found by scanning the arena.
HandlesOf(s, symbol) == {g \in 0..(Len(s.gv_data) - 1) : s.gv_data[g + 1].symbol = symbol}

\* make_gv with its argument drawn from the given set
MakeGvOf(inputs) ==
    \E d \in inputs :
        LET r == make_gv(TheGvStore, d)
        IN  /\ d.symbol \in DOMAIN symbols \/ Len(gv_data) < MaxGvs
            /\ gv_data' = r.s.gv_data
            /\ symbols' = r.s.symbols
            /\ gv_made' = IF r.aborted THEN gv_made ELSE Append(gv_made, d)
            /\ gv_handles' = IF r.aborted THEN gv_handles ELSE Append(gv_handles, r.ret)
            /\ gv_last' = [op      |-> "make_gv",
                           aborted |-> r.aborted,
                           ret     |-> r.ret,
                           dup     |-> HandlesOf(TheGvStore, d.symbol) # {}]
            /\ UNCHANGED <<tyVars, idxVars, mbVars, cfgVars, poVars, otherVars>>

MakeGv == MakeGvOf(GvInputs)

\* make_gv of public constants without initialiser
MakeGvPlain ==
    MakeGvOf({d \in GvInputs : d.linkage = "Public" /\ d.is_const /\ d.data = NoData})

InitGv ==
    /\ gv_data = GvStoreDefault.gv_data
    /\ symbols = GvStoreDefault.symbols
    /\ gv_made = <<>>
    /\ gv_handles = <<>>
    /\ gv_last = [op |-> "new", aborted |-> FALSE, ret |-> None, dup |-> FALSE]

(***************************************************************************)
(* ModuleBuilder.                                                          *)
(***************************************************************************)
MaxFuncs == 3

Signature(name, args, rets) == [name |-> name, args |-> args, rets |-> rets]

\* Function::new(sig), as declare_function calls it: the function keeps its
\* signature, and with it its name.
function_new(sig) == [sig |-> sig]

TheBuilder == [funcs |-> funcs, declared_funcs |-> declared_funcs]

\* ModuleBuilder::new
builder_new == [funcs |-> <<>>, declared_funcs |-> EmptyMap]

\* declare_function: the name is looked up in declared_funcs, and the new
\* function is pushed onto funcs; nothing is written to declared_funcs.
declare_function(mb, sig) ==
    IF sig.name \in DOMAIN mb.declared_funcs
    THEN [mb |-> mb, ret |-> None, aborted |-> TRUE]
    ELSE [mb      |-> [mb EXCEPT !.funcs = Append(@, function_new(sig))],
          ret     |-> Len(mb.funcs),
          aborted |-> FALSE]

get_func_ref(mb, name) == MapGet(mb.declared_funcs, name)

FuncNames == {"f", "g"}
SigInputs == {Signature(n, a, <<I32>>) : n \in FuncNames, a \in {<<>>, <<I32, I32>>}}

\* The FuncRefs whose function carries `name`, found by scanning the arena.
RefsOf(mb, name) == {r \in 0..(Len(mb.funcs) - 1) : mb.funcs[r + 1].sig.name = name}

DeclareFunction ==
    \E sig \in SigInputs :
        LET r == declare_function(TheBuilder, sig)
        IN  /\ Len(funcs) < MaxFuncs
            /\ funcs' = r.mb.funcs
            /\ declared_funcs' = r.mb.declared_funcs
            /\ mb_last' = [op       |-> "declare_function",
                           name     |-> sig.name,
                           aborted  |-> r.aborted,
                           ret      |-> r.ret,
                           declared |-> RefsOf(TheBuilder, sig.name)]
            /\ UNCHANGED <<tyVars, idxVars, gvVars, cfgVars, poVars, otherVars>>

GetFuncRef ==
    \E name \in FuncNames :
        /\ mb_last' = [op       |-> "get_func_ref",
                       name     |-> name,
                       aborted  |-> FALSE,
                       ret      |-> get_func_ref(TheBuilder, name),
                       declared |-> RefsOf(TheBuilder, name)]
        /\ UNCHANGED <<funcs, declared_funcs, tyVars, idxVars, gvVars, cfgVars, poVars, otherVars>>

InitMb ==
    /\ funcs = builder_new.funcs
    /\ declared_funcs = builder_new.declared_funcs
    /\ mb_last = [op |-> "new", name |-> "", aborted |-> FALSE, ret |-> None, declared |-> {}]

(***************************************************************************)
(* ControlFlowGraph.  A CFG value is a record of its three fields; the     *)
(* SecondaryMap of BlockNodes is a function on the block ids in use, a     *)
(* block never touched holding the default (empty) node.  BTreeSets are    *)
(* sets; their iteration order is ascending BlockId.                       *)
(***************************************************************************)
NumBlocks == 2

Blocks == 0..(NumBlocks - 1)

BlockNodeDefault == [preds |-> {}, succs |-> {}]

\* ControlFlowGraph::new / Default
cfg_new(B) == [entry |-> None, blocks |-> [b \in B |-> BlockNodeDefault], exits |-> <<>>]

TheCfg == [entry |-> cfg_entry, blocks |-> cfg_blocks, exits |-> cfg_exits]

preds_of(c, b) == c.blocks[b].preds
succs_of(c, b) == c.blocks[b].succs
entry(c) == c.entry

\* mutant: records the successor but not the predecessor
add_edge_succ_only(c, from, to) ==
    [c EXCEPT !.blocks = [@ EXCEPT ![from].succs = @ \cup {to}]]

add_edge(c, from, to) ==
    LET b1 == [c.blocks EXCEPT ![to].preds = @ \cup {from}]
        b2 == [b1 EXCEPT ![from].succs = @ \cup {to}]
    IN  [c EXCEPT !.blocks = b2]

remove_edge(c, from, to) ==
    LET b1 == [c.blocks EXCEPT ![to].preds = @ \ {from}]
        b2 == [b1 EXCEPT ![from].succs = @ \ {to}]
    IN  [c EXCEPT !.blocks = b2]

\* mutant: overwrites succs with preds instead of swapping
reverse_edge_copy(node) == [preds |-> node.preds, succs |-> node.preds]

\* BlockNode::reverse_edge: mem::swap(preds, succs)
reverse_edge(node) == [preds |-> node.succs, succs |-> node.preds]

reverse_edges(c, new_entry, new_exits) ==
    [entry  |-> new_entry,
     blocks |-> [b \in DOMAIN c.blocks |-> reverse_edge(c.blocks[b])],
     exits  |-> new_exits]

\* mutant: the exits are not cleared
cfg_clear_keep_exits(c) ==
    [entry |-> None, blocks |-> [b \in DOMAIN c.blocks |-> BlockNodeDefault], exits |-> c.exits]

\* ControlFlowGraph::clear
cfg_clear(c) ==
    [entry |-> None, blocks |-> [b \in DOMAIN c.blocks |-> BlockNodeDefault], exits |-> <<>>]

(***************************************************************************)
(* The function a CFG is computed from: its layout (the blocks in program  *)
(* order) and, per block, the last instruction.  An instruction carries    *)
(* what the data-flow graph answers about it: is_return and the branch     *)
(* destinations of analyze_branch.                                         *)
(***************************************************************************)
NoInsn == [block |-> None, is_return |-> FALSE, dests |-> {}]
Insn(block, is_return, dests) == [block |-> block, is_return |-> is_return, dests |-> dests]

entry_block(func) == IF Len(func.layout) = 0 THEN None ELSE func.layout[1]
last_insn_of(func, block) == func.last[block]
insn_block(func, insn) == insn.block
is_return(func, insn) == insn.is_return
analyze_branch(func, insn) == insn.dests

\* for dest in ...iter_dests() { self.add_edge(block, dest) }
RECURSIVE add_dest_edges(_, _, _)
add_dest_edges(c, block, dests) ==
    IF dests = {}
    THEN c
    ELSE LET dest == CHOOSE d \in dests : \A e \in dests : d <= e
         IN  add_dest_edges(add_edge(c, block, dest), block, dests \ {dest})

\* mutant: the exit is put in front of the exits recorded so far
analyze_insn_exit_front(c, func, insn) ==
    LET c1 == IF is_return(func, insn)
              THEN [c EXCEPT !.exits = <<insn_block(func, insn)>> \o @]
              ELSE c
    IN  add_dest_edges(c1, insn_block(func, insn), analyze_branch(func, insn))

analyze_insn(c, func, insn) ==
    LET c1 == IF is_return(func, insn)
              THEN [c EXCEPT !.exits = Append(@, insn_block(func, insn))]
              ELSE c
    IN  add_dest_edges(c1, insn_block(func, insn), analyze_branch(func, insn))

\* for block in func.layout.iter_block() { ... }, from the i-th block on
RECURSIVE compute_from(_, _, _)
compute_from(c, func, i) ==
    IF i > Len(func.layout)
    THEN c
    ELSE LET block == func.layout[i]
             last_insn == last_insn_of(func, block)
             c1 == IF last_insn # NoInsn THEN analyze_insn(c, func, last_insn) ELSE c
         IN  compute_from(c1, func, i + 1)

\* mutant: the CFG is not cleared first
compute_no_clear(c, func) == compute_from([c EXCEPT !.entry = entry_block(func)], func, 1)

compute(c, func) ==
    LET c1 == cfg_clear(c)
        c2 == [c1 EXCEPT !.entry = entry_block(func)]
    IN  compute_from(c2, func, 1)

(***************************************************************************)
(* CFG actions.  A function given to compute has a layout of distinct      *)
(* blocks in ascending order; each block of it is empty, ends in a return, *)
(* or ends in a branch to a non-empty set of destinations.                 *)
(***************************************************************************)
MaxLayout == 1

IsAscending(s) == \A i, j \in 1..Len(s) : i < j => s[i] < s[j]

Layouts(B) == {l \in SeqsUpTo(B, Cardinality(B)) : IsAscending(l)}

DestSets(B) == (SUBSET B) \ {{}}

InsnChoices(B, b) == {NoInsn, Insn(b, TRUE, {})} \cup {Insn(b, FALSE, D) : D \in DestSets(B)}

FuncsOn(B) ==
    UNION {
        {[layout |-> l, last |-> f] :
            f \in {g \in [B -> UNION {InsnChoices(B, b) : b \in B}] :
                      \A b \in B :
                          IF b \in Range(l) THEN g[b] \in InsnChoices(B, b) ELSE g[b] = NoInsn}}
        : l \in Layouts(B)}

\* Every function over Blocks, and those whose layout holds only the first
\* MaxLayout blocks.
Funcs == FuncsOn(Blocks)
SmallFuncs == {f \in Funcs : Range(f.layout) \subseteq 0..(MaxLayout - 1)}

NoFunc == [layout |-> <<>>, last |-> [b \in Blocks |-> NoInsn]]

\* The exits handed to reverse_edges: none, or one block.
ExitSeqs(B) == {<<>>} \cup {<<b>> : b \in B}

\* The CFG `before` held an entry, an edge and an exit that `after` does not.
Stale(before, after) ==
    /\ before.entry # None /\ before.entry # after.entry
    /\ \E u, v \in DOMAIN before.blocks :
            v \in succs_of(before, u) /\ v \notin succs_of(after, u)
    /\ Range(before.exits) \ Range(after.exits) # {}

CfgApply(op, c, f) ==
    /\ cfg_entry' = c.entry
    /\ cfg_blocks' = c.blocks
    /\ cfg_exits' = c.exits
    /\ cfg_func' = f
    /\ cfg_last' = op
    /\ cfg_stale' = (op = "compute" /\ Stale(TheCfg, c))
    /\ UNCHANGED <<tyVars, idxVars, gvVars, mbVars, poVars, otherVars>>

\* compute(func), for any function over Blocks
Compute == \E func \in Funcs : CfgApply("compute", compute(TheCfg, func), func)

\* compute(func), for a function laid out on the first MaxLayout blocks
ComputeSmall == \E func \in SmallFuncs : CfgApply("compute", compute(TheCfg, func), func)

AddEdge ==
    \E from \in Blocks, to \in Blocks :
        CfgApply("add_edge", add_edge(TheCfg, from, to), NoFunc)

RemoveEdge ==
    \E from \in Blocks, to \in Blocks :
        CfgApply("remove_edge", remove_edge(TheCfg, from, to), NoFunc)

ReverseEdges ==
    \E new_entry \in Blocks, new_exits \in ExitSeqs(Blocks) :
        CfgApply("reverse_edges", reverse_edges(TheCfg, new_entry, new_exits), NoFunc)

Clear == CfgApply("clear", cfg_clear(TheCfg), NoFunc)

InitCfg ==
    /\ cfg_entry = cfg_new(Blocks).entry
    /\ cfg_blocks = cfg_new(Blocks).blocks
    /\ cfg_exits = cfg_new(Blocks).exits
    /\ cfg_func = NoFunc
    /\ cfg_last = "new"
    /\ cfg_stale = FALSE

\* CFGs over the blocks B as add_edge and reverse_edges build them by hand:
\* any edge relation, any entry, and exits among X.
BuiltCfgs(B, X) ==
    {[entry  |-> e,
      blocks |-> [b \in B |-> [preds |-> {a \in B : b \in s[a]}, succs |-> s[b]]],
      exits  |-> x] :
        e \in B \cup {None}, s \in [B -> SUBSET B], x \in X}

InitCfgBuilt ==
    \E c \in BuiltCfgs(Blocks, {<<>>, <<0>>}) :
        /\ cfg_entry = c.entry
        /\ cfg_blocks = c.blocks
        /\ cfg_exits = c.exits
        /\ cfg_func = NoFunc
        /\ cfg_last = "built"
        /\ cfg_stale = FALSE

(***************************************************************************)
(* CfgPostOrder.  new() pushes the entry; next() runs its while loop until *)
(* it returns a block or the stack is empty.  The loop is unrolled with a  *)
(* budget of iterations above what any run on the blocks needs: a loop     *)
(* that used it up is reported as diverged.                                *)
(***************************************************************************)
Unvisited == 0
Visited == 1
Finished == 2

\* The traversal is explored on one block more than the CFG operations.
PoBlocks == 0..NumBlocks

RECURSIVE AscendingSeq(_)
AscendingSeq(S) ==
    IF S = {}
    THEN <<>>
    ELSE LET m == CHOOSE x \in S : \A y \in S : x <= y
         IN  <<m>> \o AscendingSeq(S \ {m})

LoopBudget(c) == (Cardinality(DOMAIN c.blocks) + 1) * (Cardinality(DOMAIN c.blocks) + 1) + 1

post_order_new(c) ==
    [stack      |-> IF entry(c) = None THEN <<>> ELSE <<entry(c)>>,
     node_state |-> [b \in DOMAIN c.blocks |-> Unvisited]]

\* mutant: a popped block is yielded without the has_finished check
RECURSIVE post_order_next_no_finished_check(_, _, _, _)
post_order_next_no_finished_check(c, stack, node_state, budget) ==
    IF stack = <<>>
    THEN [stack |-> stack, node_state |-> node_state, ret |-> None, diverged |-> FALSE]
    ELSE IF budget = 0
    THEN [stack |-> stack, node_state |-> node_state, ret |-> None, diverged |-> TRUE]
    ELSE LET block == stack[Len(stack)]
         IN  IF node_state[block] = Unvisited
             THEN LET marked == [node_state EXCEPT ![block] = Visited]
                      pushed == AscendingSeq({s \in succs_of(c, block) : marked[s] = Unvisited})
                  IN  post_order_next_no_finished_check(c, stack \o pushed, marked, budget - 1)
             ELSE [stack      |-> SubSeq(stack, 1, Len(stack) - 1),
                   node_state |-> [node_state EXCEPT ![block] = Finished],
                   ret        |-> block,
                   diverged   |-> FALSE]

\* mutant: a block is yielded when it is first visited, its successors pushed
\* in its place
RECURSIVE post_order_next_on_visit(_, _, _, _)
post_order_next_on_visit(c, stack, node_state, budget) ==
    IF stack = <<>>
    THEN [stack |-> stack, node_state |-> node_state, ret |-> None, diverged |-> FALSE]
    ELSE IF budget = 0
    THEN [stack |-> stack, node_state |-> node_state, ret |-> None, diverged |-> TRUE]
    ELSE LET block == stack[Len(stack)]
             rest  == SubSeq(stack, 1, Len(stack) - 1)
         IN  IF node_state[block] = Unvisited
             THEN LET marked == [node_state EXCEPT ![block] = Finished]
                      pushed == AscendingSeq({s \in succs_of(c, block) : marked[s] = Unvisited})
                  IN  [stack      |-> rest \o pushed,
                       node_state |-> marked,
                       ret        |-> block,
                       diverged   |-> FALSE]
             ELSE post_order_next_on_visit(c, rest, node_state, budget - 1)

RECURSIVE post_order_next(_, _, _, _)
post_order_next(c, stack, node_state, budget) ==
    IF stack = <<>>
    THEN [stack |-> stack, node_state |-> node_state, ret |-> None, diverged |-> FALSE]
    ELSE IF budget = 0
    THEN [stack |-> stack, node_state |-> node_state, ret |-> None, diverged |-> TRUE]
    ELSE LET block == stack[Len(stack)]
         IN  IF node_state[block] = Unvisited
             THEN LET marked == [node_state EXCEPT ![block] = Visited]
                      pushed == AscendingSeq({s \in succs_of(c, block) : marked[s] = Unvisited})
                  IN  post_order_next(c, stack \o pushed, marked, budget - 1)
             ELSE IF node_state[block] # Finished
             THEN [stack      |-> SubSeq(stack, 1, Len(stack) - 1),
                   node_state |-> [node_state EXCEPT ![block] = Finished],
                   ret        |-> block,
                   diverged   |-> FALSE]
             ELSE post_order_next(c, SubSeq(stack, 1, Len(stack) - 1), node_state, budget - 1)

\* cfg.post_order()
PostOrder ==
    /\ po_pc = "idle"
    /\ po_stack' = post_order_new(TheCfg).stack
    /\ po_state' = post_order_new(TheCfg).node_state
    /\ po_out' = <<>>
    /\ po_pc' = "iter"
    /\ UNCHANGED <<tyVars, idxVars, gvVars, mbVars, cfgVars, otherVars>>

\* one call of Iterator::next
PostOrderNext ==
    /\ po_pc = "iter"
    /\ LET r == post_order_next(TheCfg, po_stack, po_state, LoopBudget(TheCfg))
       IN  /\ po_stack' = r.stack
           /\ po_state' = r.node_state
           /\ po_out' = IF r.ret = None THEN po_out ELSE Append(po_out, r.ret)
           /\ po_pc' = IF r.diverged THEN "diverged" ELSE IF r.ret = None THEN "done" ELSE "iter"
    /\ UNCHANGED <<tyVars, idxVars, gvVars, mbVars, cfgVars, otherVars>>

InitPoIdle ==
    /\ po_stack = <<>>
    /\ po_state = [b \in Blocks |-> Unvisited]
    /\ po_out = <<>>
    /\ po_pc = "idle"

\* Any hand-built CFG over PoBlocks, about to be traversed.
InitPoCfg ==
    /\ \E c \in BuiltCfgs(PoBlocks, {<<>>}) :
            /\ cfg_entry = c.entry
            /\ cfg_blocks = c.blocks
            /\ cfg_exits = c.exits
    /\ cfg_func = NoFunc
    /\ cfg_last = "built"
    /\ cfg_stale = FALSE
    /\ po_stack = <<>>
    /\ po_state = [b \in PoBlocks |-> Unvisited]
    /\ po_out = <<>>
    /\ po_pc = "idle"

(***************************************************************************)
(* PartialOrd for Type.  The arms of the match are tried in order.         *)
(***************************************************************************)
is_integral(t) == t \in {I1, I8, I16, I32, I64, I128, I256}

\* mutant: the (I64, _) arm answers Less
partial_cmp_i64_less(lhs, rhs) ==
    IF lhs = rhs THEN "Equal"
    ELSE IF ~is_integral(lhs) \/ ~is_integral(rhs) THEN "None"
    ELSE IF lhs = I1 THEN "Less"
    ELSE IF lhs = I8 /\ rhs = I1 THEN "Greater"
    ELSE IF lhs = I8 THEN "Less"
    ELSE IF lhs = I16 /\ rhs \in {I1, I8} THEN "Greater"
    ELSE IF lhs = I16 THEN "Less"
    ELSE IF lhs = I32 /\ rhs \in {I1, I8, I16} THEN "Greater"
    ELSE IF lhs = I32 THEN "Less"
    ELSE IF lhs = I64 /\ rhs \in {I128, I256} THEN "Less"
    ELSE IF lhs = I64 THEN "Less"
    ELSE IF lhs = I128 /\ rhs = I256 THEN "Less"
    ELSE IF lhs = I128 THEN "Greater"
    ELSE IF lhs = I256 THEN "Greater"
    ELSE "unreachable"

\* mutant: the integer check is made before the equality check
partial_cmp_integral_first(lhs, rhs) ==
    IF ~is_integral(lhs) \/ ~is_integral(rhs) THEN "None"
    ELSE IF lhs = rhs THEN "Equal"
    ELSE IF lhs = I1 THEN "Less"
    ELSE IF lhs = I8 /\ rhs = I1 THEN "Greater"
    ELSE IF lhs = I8 THEN "Less"
    ELSE IF lhs = I16 /\ rhs \in {I1, I8} THEN "Greater"
    ELSE IF lhs = I16 THEN "Less"
    ELSE IF lhs = I32 /\ rhs \in {I1, I8, I16} THEN "Greater"
    ELSE IF lhs = I32 THEN "Less"
    ELSE IF lhs = I64 /\ rhs \in {I128, I256} THEN "Less"
    ELSE IF lhs = I64 THEN "Greater"
    ELSE IF lhs = I128 /\ rhs = I256 THEN "Less"
    ELSE IF lhs = I128 THEN "Greater"
    ELSE IF lhs = I256 THEN "Greater"
    ELSE "unreachable"

\* fn partial_cmp(&self, rhs: &Self) -> Option<Ordering>
partial_cmp(lhs, rhs) ==
    IF lhs = rhs THEN "Equal"
    ELSE IF ~is_integral(lhs) \/ ~is_integral(rhs) THEN "None"
    ELSE IF lhs = I1 THEN "Less"
    ELSE IF lhs = I8 /\ rhs = I1 THEN "Greater"
    ELSE IF lhs = I8 THEN "Less"
    ELSE IF lhs = I16 /\ rhs \in {I1, I8} THEN "Greater"
    ELSE IF lhs = I16 THEN "Less"
    ELSE IF lhs = I32 /\ rhs \in {I1, I8, I16} THEN "Greater"
    ELSE IF lhs = I32 THEN "Less"
    ELSE IF lhs = I64 /\ rhs \in {I128, I256} THEN "Less"
    ELSE IF lhs = I64 THEN "Greater"
    ELSE IF lhs = I128 /\ rhs = I256 THEN "Less"
    ELSE IF lhs = I128 THEN "Greater"
    ELSE IF lhs = I256 THEN "Greater"
    ELSE "unreachable"

PartialCmp ==
    \E lhs \in AllTypes, rhs \in AllTypes :
        /\ cmp_last' = [op |-> "partial_cmp", lhs |-> lhs, rhs |-> rhs,
                        ret |-> partial_cmp(lhs, rhs)]
        /\ UNCHANGED <<tyVars, idxVars, gvVars, mbVars, cfgVars, poVars,
                       ctxVars, disp_last, fn_last, extVars>>

InitCmp == cmp_last = [op |-> "new", lhs |-> Void, rhs |-> Void, ret |-> "None"]

(***************************************************************************)
(* ModuleCtx shared by threads.  Every clone holds the same two            *)
(* Arc<RwLock<..>>, so the clones of the threads work on one type store    *)
(* and one global-variable store (the variables above), each behind its    *)
(* lock.  A with_* call takes the lock, runs its callback and drops the    *)
(* guard; the steps of different threads interleave between these points.  *)
(*                                                                         *)
(* std::sync::RwLock: read() waits while a writer holds the lock, write()  *)
(* waits while anyone holds it; a write guard dropped while its thread is  *)
(* panicking poisons the lock, and read()/write() on a poisoned lock       *)
(* return Err, on which unwrap() panics.                                   *)
(***************************************************************************)
NumThreads == 2

Threads == 1..NumThreads
Stores == {"ty", "gv"}

RwLockNew == [readers |-> {}, writer |-> None, poisoned |-> FALSE]

rw_can_read(l) == l.writer = None
rw_can_write(l) == l.writer = None /\ l.readers = {}
rw_read(l, t) == [l EXCEPT !.readers = @ \cup {t}]
rw_write(l, t) == [l EXCEPT !.writer = t]

\* Dropping the guard of thread t, during a panic or not.
rw_drop(l, t, panicking) ==
    [readers  |-> l.readers \ {t},
     writer   |-> IF l.writer = t THEN None ELSE l.writer,
     poisoned |-> l.poisoned \/ (panicking /\ l.writer = t)]

\* mutant: the exclusive accessors take the lock shared
with_ty_store_mut_shared(l, t) == [can |-> rw_can_read(l), lock |-> rw_read(l, t)]
with_gv_store_mut_shared(l, t) == [can |-> rw_can_read(l), lock |-> rw_read(l, t)]

\* How each accessor takes its lock: whether it can proceed, and the lock
\* after it did.
with_ty_store(l, t) == [can |-> rw_can_read(l), lock |-> rw_read(l, t)]
with_ty_store_mut(l, t) == [can |-> rw_can_write(l), lock |-> rw_write(l, t)]
with_gv_store(l, t) == [can |-> rw_can_read(l), lock |-> rw_read(l, t)]
with_gv_store_mut(l, t) == [can |-> rw_can_write(l), lock |-> rw_write(l, t)]

\* A thread outside any with_* call.
ThIdle ==
    [pc |-> "idle", store |-> "none", mode |-> "none", arg |-> None, hit |-> None,
     known |-> {}, ret |-> None]

\* What the callbacks are given: data to intern, a handle to resolve, data of a
\* global variable to register, a symbol to look up.
CtxTyData == {Ptr(I32), Array(I32, 2)}
CtxHandles == 0..(Cardinality(CtxTyData) - 1)
CtxGvData ==
    {d \in GvInputs : d.symbol \in {"foo", "bar"} /\ d.linkage = "Public" /\ d.is_const
                      /\ d.data = NoData}
CtxSymbols == {"foo", "bar"}

\* lock.read().unwrap() / lock.write().unwrap(): on a poisoned lock the call
\* panics before the callback runs ("refused"); otherwise the guard is held
\* and the callback starts ("cb").
CtxBegin(t, store, mode, arg, acq) ==
    /\ ctx_th[t].pc = "idle"
    /\ acq.can
    /\ IF ctx_lock[store].poisoned
       THEN /\ ctx_th' = [ctx_th EXCEPT ![t] =
                            [ThIdle EXCEPT !.pc = "refused", !.store = store, !.mode = mode]]
            /\ UNCHANGED ctx_lock
       ELSE /\ ctx_lock' = [ctx_lock EXCEPT ![store] = acq.lock]
            /\ ctx_th' = [ctx_th EXCEPT ![t] =
                            [ThIdle EXCEPT !.pc = "cb", !.store = store, !.mode = mode,
                                           !.arg = arg, !.known = ctx_log]]
    /\ UNCHANGED <<ctx_log, tyVars, idxVars, gvVars, mbVars, cfgVars, poVars,
                   cmp_last, disp_last, fn_last, extVars>>

\* with_ty_store(|s| s.resolve_compound(h))
WithTyStore ==
    \E t \in Threads, h \in CtxHandles :
        CtxBegin(t, "ty", "read", h, with_ty_store(ctx_lock["ty"], t))

\* with_ty_store_mut(|s| s.make_ptr(..)) or (|s| s.make_array(..))
WithTyStoreMut ==
    \E t \in Threads, data \in CtxTyData :
        /\ data \in DOMAIN rev_types \/ Len(compounds) < MaxCompounds
        /\ CtxBegin(t, "ty", "write", data, with_ty_store_mut(ctx_lock["ty"], t))

\* with_gv_store(|s| s.gv_by_symbol(symbol))
WithGvStore ==
    \E t \in Threads, symbol \in CtxSymbols :
        CtxBegin(t, "gv", "read", symbol, with_gv_store(ctx_lock["gv"], t))

\* with_gv_store_mut(|s| s.make_gv(d))
WithGvStoreMut ==
    \E t \in Threads, d \in CtxGvData :
        /\ d.symbol \in DOMAIN symbols \/ Len(gv_data) < MaxGvs
        /\ CtxBegin(t, "gv", "write", d, with_gv_store_mut(ctx_lock["gv"], t))

CtxAt(t, pc, store, mode) ==
    /\ ctx_th[t].pc = pc
    /\ ctx_th[t].store = store
    /\ ctx_th[t].mode = mode

\* The callback resolve_compound(h): indexing the arena with a handle it does
\* not hold panics.
CbResolve ==
    \E t \in Threads :
        /\ CtxAt(t, "cb", "ty", "read")
        /\ ctx_th' = [ctx_th EXCEPT ![t] =
                        IF ctx_th[t].arg < Len(compounds)
                        THEN [@ EXCEPT !.pc = "ret",
                                       !.ret = resolve_compound(TheTypeStore, ctx_th[t].arg)]
                        ELSE [@ EXCEPT !.pc = "unwind"]]
        /\ UNCHANGED <<ctx_lock, ctx_log, tyVars, idxVars, gvVars, mbVars, cfgVars, poVars,
                       cmp_last, disp_last, fn_last, extVars>>

\* make_compound, first half: self.rev_types.get(&data)
CbMakeLookup ==
    \E t \in Threads :
        /\ CtxAt(t, "cb", "ty", "write")
        /\ ctx_th' = [ctx_th EXCEPT ![t] =
                        [@ EXCEPT !.pc = "cb2", !.hit = MapGet(rev_types, ctx_th[t].arg)]]
        /\ UNCHANGED <<ctx_lock, ctx_log, tyVars, idxVars, gvVars, mbVars, cfgVars, poVars,
                       cmp_last, disp_last, fn_last, extVars>>

\* make_compound, second half: the handle found, or push and insert
CbMakeInsert ==
    \E t \in Threads :
        /\ CtxAt(t, "cb2", "ty", "write")
        /\ IF ctx_th[t].hit # None
           THEN /\ ctx_th' = [ctx_th EXCEPT ![t] = [@ EXCEPT !.pc = "ret", !.ret = ctx_th[t].hit]]
                /\ UNCHANGED <<compounds, rev_types>>
           ELSE /\ compounds' = Append(compounds, ctx_th[t].arg)
                /\ rev_types' = MapInsert(rev_types, ctx_th[t].arg, Len(compounds))
                /\ ctx_th' = [ctx_th EXCEPT ![t] =
                                [@ EXCEPT !.pc = "ret", !.ret = Len(compounds)]]
        /\ UNCHANGED <<ctx_lock, ctx_log, struct_types, debug_assertions, struct_decls, ty_last,
                       idxVars, gvVars, mbVars, cfgVars, poVars, cmp_last, disp_last, fn_last, extVars>>

\* The callback gv_by_symbol(symbol)
CbGvBySymbol ==
    \E t \in Threads :
        /\ CtxAt(t, "cb", "gv", "read")
        /\ ctx_th' = [ctx_th EXCEPT ![t] =
                        [@ EXCEPT !.pc = "ret",
                                  !.ret = gv_by_symbol(TheGvStore, ctx_th[t].arg)]]
        /\ UNCHANGED <<ctx_lock, ctx_log, tyVars, idxVars, gvVars, mbVars, cfgVars, poVars,
                       cmp_last, disp_last, fn_last, extVars>>

\* The callback make_gv(d): panics on a duplicate symbol
CbMakeGv ==
    \E t \in Threads :
        LET r == make_gv(TheGvStore, ctx_th[t].arg)
        IN  /\ CtxAt(t, "cb", "gv", "write")
            /\ gv_data' = r.s.gv_data
            /\ symbols' = r.s.symbols
            /\ gv_made' = IF r.aborted THEN gv_made ELSE Append(gv_made, ctx_th[t].arg)
            /\ gv_handles' = IF r.aborted THEN gv_handles ELSE Append(gv_handles, r.ret)
            /\ ctx_th' = [ctx_th EXCEPT ![t] =
                            IF r.aborted
                            THEN [@ EXCEPT !.pc = "unwind"]
                            ELSE [@ EXCEPT !.pc = "ret", !.ret = r.ret]]
            /\ UNCHANGED <<ctx_lock, ctx_log, gv_last, tyVars, idxVars, mbVars, cfgVars, poVars,
                           cmp_last, disp_last, fn_last, extVars>>

\* The guard goes out of scope: after the callback returned, or while its
\* panic unwinds.  A make_* that returned is complete from here on.
DropGuard ==
    \E t \in Threads :
        /\ ctx_th[t].pc \in {"ret", "unwind"}
        /\ ctx_lock' = [ctx_lock EXCEPT ![ctx_th[t].store] =
                            rw_drop(@, t, ctx_th[t].pc = "unwind")]
        /\ ctx_log' = IF /\ CtxAt(t, "ret", "ty", "write")
                         /\ \A e \in ctx_log : e.data # ctx_th[t].arg \/ e.ret # ctx_th[t].ret
                      THEN ctx_log \cup {[data |-> ctx_th[t].arg, ret |-> ctx_th[t].ret, by |-> t]}
                      ELSE ctx_log
        /\ ctx_th' = [ctx_th EXCEPT ![t] = ThIdle]
        /\ UNCHANGED <<tyVars, idxVars, gvVars, mbVars, cfgVars, poVars,
                       cmp_last, disp_last, fn_last, extVars>>

\* The panic of unwrap() on a poisoned lock has ended the call.
EndRefused ==
    \E t \in Threads :
        /\ ctx_th[t].pc = "refused"
        /\ ctx_th' = [ctx_th EXCEPT ![t] = ThIdle]
        /\ UNCHANGED <<ctx_lock, ctx_log, tyVars, idxVars, gvVars, mbVars, cfgVars, poVars,
                       cmp_last, disp_last, fn_last, extVars>>

\* ModuleCtx::new, no thread in a call
InitCtx ==
    /\ ctx_lock = [s \in Stores |-> RwLockNew]
    /\ ctx_th = [t \in Threads |-> ThIdle]
    /\ ctx_log = {}

(***************************************************************************)
(* The text of types, constants and global variables.  Each write! of the  *)
(* code appends to the text written so far.                                *)
(***************************************************************************)
\* Display for DisplayType / DisplayCompoundType
RECURSIVE type_text(_, _)
type_text(s, ty) ==
    IF ty = I1 THEN "i1"
    ELSE IF ty = I8 THEN "i8"
    ELSE IF ty = I16 THEN "i16"
    ELSE IF ty = I32 THEN "i32"
    ELSE IF ty = I64 THEN "i64"
    ELSE IF ty = I128 THEN "i128"
    ELSE IF ty = I256 THEN "i256"
    ELSE IF ty = Void THEN "()"
    ELSE LET data == resolve_compound(s, ty[2])
         IN  IF data.kind = "Array"
             THEN "[" \o type_text(s, data.elem) \o ";" \o ToString(data.len) \o "]"
             ELSE IF data.kind = "Ptr"
             THEN "*" \o type_text(s, data.elem)
             ELSE IF data.packed
             THEN "<{" \o data.name \o "}>"
             ELSE "{" \o data.name \o "}"

\* Display for Linkage and for Immediate
linkage_text(linkage) ==
    CASE linkage = "Public" -> "public"
      [] linkage = "Private" -> "private"
      [] linkage = "External" -> "external"

imm_text(n) == ToString(n)

\* Display for ConstantValue; the elements are written from the i-th on, with
\* ", " before every element but the first.
RECURSIVE const_text(_)
RECURSIVE write_elems(_, _)
write_elems(elems, i) ==
    IF i > Len(elems)
    THEN ""
    ELSE (IF i > 1 THEN ", " ELSE "") \o const_text(elems[i]) \o write_elems(elems, i + 1)

const_text(cv) ==
    IF cv.kind = "Immediate" THEN imm_text(cv.imm)
    ELSE IF cv.kind = "Array" THEN "[" \o write_elems(cv.elems, 1) \o "]"
    ELSE "{" \o write_elems(cv.elems, 1) \o "}"

\* mutant: the linkage is written before " const"
gv_text_linkage_first(s, d) ==
    type_text(s, d.ty)
        \o " " \o linkage_text(d.linkage)
        \o (IF d.is_const THEN " const" ELSE "")
        \o (IF d.data # NoData THEN " " \o const_text(d.data) ELSE "")

\* DisplayWithFunc for GlobalVariableData
gv_text(s, d) ==
    type_text(s, d.ty)
        \o (IF d.is_const THEN " const" ELSE "")
        \o " " \o linkage_text(d.linkage)
        \o (IF d.data # NoData THEN " " \o const_text(d.data) ELSE "")

\* The global variables rendered: of a primitive type or a type of the store,
\* with no initialiser, a number, arrays of zero to three numbers, or a struct
\* holding a number and an array.
DispTypes == {I32, Void} \cup {Compound(c) : c \in 0..(Len(compounds) - 1)}
DispData ==
    {NoData, Immediate(1618), ConstArray(<<>>), ConstArray(<<Immediate(7)>>),
     ConstArray(<<Immediate(8), Immediate(4), Immediate(2)>>),
     ConstStruct(<<Immediate(1), ConstArray(<<Immediate(2), Immediate(3)>>)>>)}
DispInputs ==
    {GlobalVariableData("foo", ty, l, c, d) :
        ty \in DispTypes, l \in {"Public", "Private", "External"}, c \in BOOLEAN, d \in DispData}

\* to_string() of a global variable's data
DisplayGv ==
    \E d \in DispInputs :
        /\ disp_last' = [op |-> "display", d |-> d, text |-> gv_text(TheTypeStore, d)]
        /\ UNCHANGED <<tyVars, idxVars, gvVars, mbVars, cfgVars, poVars, cmp_last, ctxVars,
                       fn_last, extVars>>

InitDisp == disp_last = [op |-> "new", d |-> GlobalVariableData("", Void, "Public", FALSE, NoData),
                         text |-> ""]

(***************************************************************************)
(* Function::new.                                                          *)
(* The data-flow graph is an arena of value definitions; a Value is the    *)
(* index of its definition.                                                *)
(***************************************************************************)
MaxArgs == 3

\* Signature::new(args, rets)
signature_new(args, rets) == [args |-> args, rets |-> rets]

\* DataFlowGraph::default()
dfg_default == [values |-> <<>>]

\* DataFlowGraph::make_arg_value: the definition of an argument value
make_arg_value(ty, idx) == [kind |-> "Arg", ty |-> ty, idx |-> idx]

\* DataFlowGraph::make_value: the definition is pushed, the value names it
make_value(dfg, value) ==
    [dfg |-> [dfg EXCEPT !.values = Append(@, value)], ret |-> Len(dfg.values)]

\* mutant: the arguments are not enumerated, every value is argument 0
RECURSIVE arg_values_collect_idx0(_, _, _, _)
arg_values_collect_idx0(args, idx, dfg, acc) ==
    IF idx = Len(args)
    THEN [dfg |-> dfg, arg_values |-> acc]
    ELSE LET value == make_arg_value(args[idx + 1], 0)
             r     == make_value(dfg, value)
         IN arg_values_collect_idx0(args, idx + 1, r.dfg, Append(acc, r.ret))

\* sig.args().iter().enumerate().map(..).collect(), from argument idx on
RECURSIVE arg_values_collect(_, _, _, _)
arg_values_collect(args, idx, dfg, acc) ==
    IF idx = Len(args)
    THEN [dfg |-> dfg, arg_values |-> acc]
    ELSE LET value == make_arg_value(args[idx + 1], idx)
             r     == make_value(dfg, value)
         IN arg_values_collect(args, idx + 1, r.dfg, Append(acc, r.ret))

\* Function::new(name, sig)
FunctionNew(name, sig) ==
    LET r == arg_values_collect(sig.args, 0, dfg_default, <<>>)
    IN [name       |-> name,
        sig        |-> sig,
        arg_values |-> r.arg_values,
        dfg        |-> r.dfg,
        layout     |-> <<>>]

FnArgTypes == {I32, I64, Compound(0)}
FnSigs == {signature_new(a, r) : a \in SeqsUpTo(FnArgTypes, MaxArgs), r \in {<<>>, <<I32>>}}

NewFunction ==
    \E name \in FuncNames, sig \in FnSigs :
        /\ fn_last' = [op |-> "new", func |-> FunctionNew(name, sig)]
        /\ UNCHANGED <<tyVars, idxVars, gvVars, mbVars, cfgVars, poVars, cmp_last, ctxVars,
                       disp_last, extVars>>

InitFn == fn_last = [op |-> "none", func |-> FunctionNew("", signature_new(<<>>, <<>>))]

(***************************************************************************)
(* Acyclic CFGs.  Every acyclic edge relation on the blocks is a           *)
(* renumbering of a relation whose edges all lead from a lower to a higher *)
(* block id.                                                               *)
(***************************************************************************)
NumDagBlocks == 4

DagBlocks == 0..(NumDagBlocks - 1)

ForwardPairs(B) == {e \in B \X B : e[1] < e[2]}

DagEdgeSets(B) ==
    {{<<p[e[1]], p[e[2]]>> : e \in E} : E \in SUBSET ForwardPairs(B), p \in Permutations(B)}

\* The CFG add_edge builds from the edges E, with the entry e.
CfgOfEdges(B, E, e) ==
    [entry  |-> e,
     blocks |-> [b \in B |-> [preds |-> {a \in B : <<a, b>> \in E},
                              succs |-> {v \in B : <<b, v>> \in E}]],
     exits  |-> <<>>]

DagCfgs(B) == {CfgOfEdges(B, E, e) : E \in DagEdgeSets(B), e \in B \cup {None}}

\* The diamond bb0 -> {bb1, bb2} -> bb3
DiamondCfg == CfgOfEdges(0..3, {<<0, 1>>, <<0, 2>>, <<1, 3>>, <<2, 3>>}, 0)

\* Any acyclic hand-built CFG over DagBlocks, about to be traversed.
InitDagCfg ==
    /\ \E c \in DagCfgs(DagBlocks) :
            /\ cfg_entry = c.entry
            /\ cfg_blocks = c.blocks
            /\ cfg_exits = c.exits
    /\ cfg_func = NoFunc
    /\ cfg_last = "built"
    /\ cfg_stale = FALSE
    /\ po_stack = <<>>
    /\ po_state = [b \in DagBlocks |-> Unvisited]
    /\ po_out = <<>>
    /\ po_pc = "idle"

(***************************************************************************)
(* compute on a function whose layout lists its blocks in any order,       *)
(* followed by the traversal of the computed CFG.                          *)
(***************************************************************************)
AnyLayouts(B) == {l \in SeqsUpTo(B, Cardinality(B)) : \A i, j \in 1..Len(l) : i # j => l[i] # l[j]}

FuncsAnyOrder(B) ==
    UNION {
        {[layout |-> l, last |-> f] :
            f \in {g \in [B -> UNION {InsnChoices(B, b) : b \in B}] :
                      \A b \in B :
                          IF b \in Range(l) THEN g[b] \in InsnChoices(B, b) ELSE g[b] = NoInsn}}
        : l \in AnyLayouts(B)}

\* cfg.compute(func) on a new CFG; no iterator borrows the CFG
ComputeNew ==
    /\ cfg_last = "new"
    /\ po_pc = "idle"
    /\ \E func \in FuncsAnyOrder(Blocks) : CfgApply("compute", compute(TheCfg, func), func)

(***************************************************************************)
(* BlockNode with its two BTreeSets written out: a set is the sequence of  *)
(* its elements in the order iter() yields them.  insert puts a new        *)
(* element before the first larger one; remove takes the element out.      *)
(***************************************************************************)
btree_insert(seq, x) ==
    IF x \in Range(seq)
    THEN seq
    ELSE SelectSeq(seq, LAMBDA y : y < x) \o <<x>> \o SelectSeq(seq, LAMBDA y : y > x)

btree_remove(seq, x) == SelectSeq(seq, LAMBDA y : y # x)

OrdNodeDefault == [preds |-> <<>>, succs |-> <<>>]

push_pred(node, pred) == [node EXCEPT !.preds = btree_insert(@, pred)]

\* mutant: the successors are kept in the order they were first added
push_succ_append(node, succ) ==
    [node EXCEPT !.succs = IF succ \in Range(@) THEN @ ELSE Append(@, succ)]

push_succ(node, succ) == [node EXCEPT !.succs = btree_insert(@, succ)]

remove_pred(node, pred) == [node EXCEPT !.preds = btree_remove(@, pred)]
remove_succ(node, succ) == [node EXCEPT !.succs = btree_remove(@, succ)]

\* add_edge and remove_edge, on the nodes
ord_add_edge(blocks, from, to) ==
    LET b1 == [blocks EXCEPT ![to] = push_pred(@, from)]
    IN  [b1 EXCEPT ![from] = push_succ(@, to)]

ord_remove_edge(blocks, from, to) ==
    LET b1 == [blocks EXCEPT ![to] = remove_pred(@, from)]
    IN  [b1 EXCEPT ![from] = remove_succ(@, to)]

\* The whole sequence CfgPostOrder yields, its successors taken in the order
\* succs() iterates: the loop of next(), run until the stack is empty.
RECURSIVE ord_post_order(_, _, _, _, _)
ord_post_order(blocks, stack, node_state, out, budget) ==
    IF stack = <<>> \/ budget = 0
    THEN out
    ELSE LET block == stack[Len(stack)]
         IN  IF node_state[block] = Unvisited
             THEN LET marked == [node_state EXCEPT ![block] = Visited]
                      pushed == SelectSeq(blocks[block].succs, LAMBDA s : marked[s] = Unvisited)
                  IN  ord_post_order(blocks, stack \o pushed, marked, out, budget - 1)
             ELSE IF node_state[block] # Finished
             THEN ord_post_order(blocks, SubSeq(stack, 1, Len(stack) - 1),
                                 [node_state EXCEPT ![block] = Finished],
                                 Append(out, block), budget - 1)
             ELSE ord_post_order(blocks, SubSeq(stack, 1, Len(stack) - 1), node_state, out,
                                 budget - 1)

OrdPostOrder(e, blocks) ==
    ord_post_order(blocks, IF e = None THEN <<>> ELSE <<e>>,
                   [b \in DOMAIN blocks |-> Unvisited], <<>>,
                   4 * (Cardinality(DOMAIN blocks) + 1) * (Cardinality(DOMAIN blocks) + 1))

\* The edges explored are capped at MaxEdges.
MaxEdges == 5

OrdEdgeCount(blocks) ==
    Cardinality({e \in (DOMAIN blocks) \X (DOMAIN blocks) : e[2] \in Range(blocks[e[1]].succs)})

OrdAddEdge ==
    \E from \in PoBlocks, to \in PoBlocks :
        /\ OrdEdgeCount(ord_blocks) < MaxEdges \/ to \in Range(ord_blocks[from].succs)
        /\ ord_blocks' = ord_add_edge(ord_blocks, from, to)
        /\ ord_last' = IF to \in Range(ord_blocks[from].succs) THEN "add_again"
                       ELSE IF \E s \in Range(ord_blocks[from].succs) : s > to THEN "add_before"
                       ELSE "add_edge"
        /\ UNCHANGED <<ord_entry, tyVars, idxVars, gvVars, mbVars, cfgVars, poVars,
                       cmp_last, ctxVars, disp_last, fn_last, rndVars>>

OrdRemoveEdge ==
    \E from \in PoBlocks, to \in PoBlocks :
        /\ ord_blocks' = ord_remove_edge(ord_blocks, from, to)
        /\ ord_last' = "remove_edge"
        /\ UNCHANGED <<ord_entry, tyVars, idxVars, gvVars, mbVars, cfgVars, poVars,
                       cmp_last, ctxVars, disp_last, fn_last, rndVars>>

\* A new CFG
InitOrdNew ==
    /\ ord_entry = None
    /\ ord_blocks = [b \in PoBlocks |-> OrdNodeDefault]
    /\ ord_last = "new"

\* A CFG without edges whose entry is bb0
InitOrdEntry ==
    /\ ord_entry = 0
    /\ ord_blocks = [b \in PoBlocks |-> OrdNodeDefault]
    /\ ord_last = "new"

(***************************************************************************)
(* Rendering through the ModuleCtx.  DisplayCompoundType::fmt formats the  *)
(* element type inside the callback it gives to with_ty_store, so the read *)
(* guard of the outer type is held while the inner type is formatted; the  *)
(* fmt of a GlobalVariable formats the variable's type inside the callback *)
(* it gives to with_gv_store.  A thread's stack `tys` holds the types      *)
(* being formatted, outermost first.  read() and write() block until the   *)
(* lock is granted: a waiting thread stays at "want_*".  Whether a waiting *)
(* writer holds back new readers is left to the platform by std; both      *)
(* policies are explored.                                                  *)
(***************************************************************************)
RndLockNew == [readers |-> [t \in Threads |-> 0], writer |-> None, waiting |-> {}]

RndIdle == [pc |-> "idle", tys |-> <<>>, gv |-> FALSE, store |-> "none"]

\* RwLock::read is granted
rnd_can_read(l, priority) ==
    /\ l.writer = None
    /\ priority => l.waiting = {}

\* RwLock::write is granted
rnd_can_write(l) == l.writer = None /\ \A t \in Threads : l.readers[t] = 0

\* to_string() of a type starts
RenderType ==
    \E t \in Threads, ty \in {I32} \cup {Compound(c) : c \in 0..(Len(compounds) - 1)} :
        /\ rnd_th[t].pc = "idle"
        /\ rnd_th' = [rnd_th EXCEPT ![t] = [RndIdle EXCEPT !.pc = "fmt", !.tys = <<ty>>]]
        /\ UNCHANGED <<rnd_lock, writer_priority, tyVars, idxVars, gvVars, mbVars, cfgVars,
                       poVars, cmp_last, ctxVars, disp_last, fn_last, ordVars>>

\* GlobalVariable::fmt calls with_gv_store
RenderGv ==
    \E t \in Threads :
        /\ rnd_th[t].pc = "idle"
        /\ gv_data # <<>>
        /\ rnd_th' = [rnd_th EXCEPT ![t] = [RndIdle EXCEPT !.pc = "want_gv"]]
        /\ UNCHANGED <<rnd_lock, writer_priority, tyVars, idxVars, gvVars, mbVars, cfgVars,
                       poVars, cmp_last, ctxVars, disp_last, fn_last, ordVars>>

\* with_gv_store: the read guard is taken and the callback formats the type
\* of the first global variable
GvReadGranted ==
    \E t \in Threads :
        /\ rnd_th[t].pc = "want_gv"
        /\ rnd_can_read(rnd_lock["gv"], writer_priority)
        /\ rnd_lock' = [rnd_lock EXCEPT !["gv"].readers[t] = @ + 1]
        /\ rnd_th' = [rnd_th EXCEPT ![t].pc = "fmt", ![t].gv = TRUE,
                                    ![t].tys = <<gv_ty(TheGvStore, 0)>>]
        /\ UNCHANGED <<writer_priority, tyVars, idxVars, gvVars, mbVars, cfgVars,
                       poVars, cmp_last, ctxVars, disp_last, fn_last, ordVars>>

\* DisplayType::fmt of the innermost type: a primitive type is written; a
\* compound type goes to DisplayCompoundType::fmt, which calls with_ty_store
FmtType ==
    \E t \in Threads :
        /\ rnd_th[t].pc = "fmt"
        /\ LET ty == rnd_th[t].tys[Len(rnd_th[t].tys)]
           IN  rnd_th' = [rnd_th EXCEPT ![t].pc = IF ty[1] = "Compound" THEN "want_ty"
                                                  ELSE "written"]
        /\ UNCHANGED <<rnd_lock, writer_priority, tyVars, idxVars, gvVars, mbVars, cfgVars,
                       poVars, cmp_last, ctxVars, disp_last, fn_last, ordVars>>

\* with_ty_store: the read guard is taken and the callback resolves the
\* compound type; an array or a pointer has its element type formatted next
TyReadGranted ==
    \E t \in Threads :
        /\ rnd_th[t].pc = "want_ty"
        /\ rnd_can_read(rnd_lock["ty"], writer_priority)
        /\ rnd_lock' = [rnd_lock EXCEPT !["ty"].readers[t] = @ + 1]
        /\ LET ty   == rnd_th[t].tys[Len(rnd_th[t].tys)]
               data == resolve_compound(TheTypeStore, ty[2])
           IN  rnd_th' = IF data.kind \in {"Array", "Ptr"}
                         THEN [rnd_th EXCEPT ![t].pc = "fmt", ![t].tys = Append(@, data.elem)]
                         ELSE [rnd_th EXCEPT ![t].pc = "written"]
        /\ UNCHANGED <<writer_priority, tyVars, idxVars, gvVars, mbVars, cfgVars,
                       poVars, cmp_last, ctxVars, disp_last, fn_last, ordVars>>

\* The innermost type is written: fmt returns; the callback of a compound
\* type returns with it and its read guard is dropped; after the outermost
\* type the callback of with_gv_store returns as well
FmtReturn ==
    \E t \in Threads :
        /\ rnd_th[t].pc = "written"
        /\ LET tys  == rnd_th[t].tys
               ty   == tys[Len(tys)]
               rest == SubSeq(tys, 1, Len(tys) - 1)
               l1   == IF ty[1] = "Compound"
                       THEN [rnd_lock EXCEPT !["ty"].readers[t] = @ - 1]
                       ELSE rnd_lock
           IN  IF rest = <<>>
               THEN /\ rnd_lock' = IF rnd_th[t].gv
                                   THEN [l1 EXCEPT !["gv"].readers[t] = @ - 1]
                                   ELSE l1
                    /\ rnd_th' = [rnd_th EXCEPT ![t] = RndIdle]
               ELSE /\ rnd_lock' = l1
                    /\ rnd_th' = [rnd_th EXCEPT ![t].tys = rest]
        /\ UNCHANGED <<writer_priority, tyVars, idxVars, gvVars, mbVars, cfgVars,
                       poVars, cmp_last, ctxVars, disp_last, fn_last, ordVars>>

\* with_ty_store_mut / with_gv_store_mut is called: the thread waits in write()
WriteWanted ==
    \E t \in Threads, st \in Stores :
        /\ rnd_th[t].pc = "idle"
        /\ rnd_th' = [rnd_th EXCEPT ![t] = [RndIdle EXCEPT !.pc = "want_write", !.store = st]]
        /\ rnd_lock' = [rnd_lock EXCEPT ![st].waiting = @ \cup {t}]
        /\ UNCHANGED <<writer_priority, tyVars, idxVars, gvVars, mbVars, cfgVars,
                       poVars, cmp_last, ctxVars, disp_last, fn_last, ordVars>>

\* write() returns the guard and the callback runs
WriteGranted ==
    \E t \in Threads :
        /\ rnd_th[t].pc = "want_write"
        /\ rnd_can_write(rnd_lock[rnd_th[t].store])
        /\ rnd_lock' = [rnd_lock EXCEPT ![rnd_th[t].store].writer = t,
                                        ![rnd_th[t].store].waiting = @ \ {t}]
        /\ rnd_th' = [rnd_th EXCEPT ![t].pc = "writing"]
        /\ UNCHANGED <<writer_priority, tyVars, idxVars, gvVars, mbVars, cfgVars,
                       poVars, cmp_last, ctxVars, disp_last, fn_last, ordVars>>

\* The callback, a lookup that leaves the store as it is, returns and the
\* write guard is dropped
WriteReturn ==
    \E t \in Threads :
        /\ rnd_th[t].pc = "writing"
        /\ rnd_lock' = [rnd_lock EXCEPT ![rnd_th[t].store].writer = None]
        /\ rnd_th' = [rnd_th EXCEPT ![t] = RndIdle]
        /\ UNCHANGED <<writer_priority, tyVars, idxVars, gvVars, mbVars, cfgVars,
                       poVars, cmp_last, ctxVars, disp_last, fn_last, ordVars>>

InitRndIdle ==
    /\ rnd_lock = [st \in Stores |-> RndLockNew]
    /\ rnd_th = [t \in Threads |-> RndIdle]
    /\ writer_priority = TRUE

\* A module whose type store holds [i32;3] and a pointer to it, and whose
\* global-variable store holds one variable of the pointer type.
InitRndStores ==
    /\ LET s1 == make_array(TypeStoreDefault, I32, 3)
           s2 == make_ptr(s1.s, s1.ret)
       IN  /\ compounds = s2.s.compounds
           /\ rev_types = s2.s.rev_types
           /\ struct_types = s2.s.struct_types
           /\ LET d == GlobalVariableData("foo", s2.ret, "Public", TRUE, NoData)
                  g == make_gv(GvStoreDefault, d)
              IN  /\ gv_data = g.s.gv_data
                  /\ symbols = g.s.symbols
                  /\ gv_made = <<d>>
                  /\ gv_handles = <<g.ret>>
    /\ struct_decls = <<>>
    /\ ty_last = TyLastInit
    /\ gv_last = [op |-> "new", aborted |-> FALSE, ret |-> None, dup |-> FALSE]

InitBuild == debug_assertions \in BOOLEAN

(***************************************************************************)
(* Specifications, one per component.                                      *)
(***************************************************************************)
InitOther == InitCmp /\ InitCtx /\ InitDisp /\ InitFn /\ InitOrdNew /\ InitRndIdle
InitStores == InitTyStore /\ InitIdx /\ InitGv /\ InitMb /\ InitOther

\* The type store is explored under both builds; the other components do not
\* read the flag.
InitAll == InitBuild /\ InitStores /\ InitCfg /\ InitPoIdle
InitDebug == debug_assertions = TRUE /\ InitStores /\ InitCfg /\ InitPoIdle

NextTy == MakePtr \/ MakeArray \/ MakeStruct \/ MakeCompound
SpecTy == InitAll /\ [][NextTy]_vars

NextIdx == MapSet \/ TypeRoundTrip
SpecIdx == InitDebug /\ [][NextIdx]_vars

NextGv == MakeGv
SpecGv == InitDebug /\ [][NextGv]_vars

NextMb == DeclareFunction \/ GetFuncRef
SpecMb == InitDebug /\ [][NextMb]_vars

\* Any sequence of the five CFG operations, from a new CFG.
NextCfg == ComputeSmall \/ AddEdge \/ RemoveEdge \/ ReverseEdges \/ Clear
SpecCfg == InitDebug /\ [][NextCfg]_vars

\* compute on a new, a hand-built or an already computed CFG.
InitCompute == debug_assertions = TRUE /\ InitStores /\ InitCfgBuilt /\ InitPoIdle
NextCompute == Compute
SpecCompute == InitCompute /\ [][NextCompute]_vars

\* The post-order traversal of any hand-built CFG.
InitPo == debug_assertions = TRUE /\ InitStores /\ InitPoCfg
NextPo == PostOrder \/ PostOrderNext
SpecPo == InitPo /\ [][NextPo]_vars

NextCmp == PartialCmp
SpecCmp == InitDebug /\ [][NextCmp]_vars

\* Struct and global-variable declarations, for the iteration order.
NextOrder == MakeStructPlain \/ MakeGvPlain
SpecOrder == InitAll /\ [][NextOrder]_vars

\* Threads calling the four accessors of one shared ModuleCtx.
NextCtx ==
    \/ WithTyStore \/ WithTyStoreMut \/ WithGvStore \/ WithGvStoreMut
    \/ CbResolve \/ CbMakeLookup \/ CbMakeInsert \/ CbGvBySymbol \/ CbMakeGv
    \/ DropGuard \/ EndRefused
SpecCtx == InitDebug /\ [][NextCtx]_vars

\* Array types are made, and global variables of them rendered.
NextDisp == MakeArrayOfThree \/ DisplayGv
SpecDisp == InitDebug /\ [][NextDisp]_vars

\* Functions are constructed from signatures of up to MaxArgs arguments.
NextFn == NewFunction
SpecFn == InitDebug /\ [][NextFn]_vars

\* The post-order traversal of any acyclic hand-built CFG.
InitDag == debug_assertions = TRUE /\ InitStores /\ InitDagCfg
NextDag == PostOrder \/ PostOrderNext
SpecDag == InitDag /\ [][NextDag]_vars

\* A new CFG is computed from a function, then traversed.
NextExits == ComputeNew \/ PostOrder \/ PostOrderNext
SpecExits == InitDebug /\ [][NextExits]_vars

\* Edges are added to and removed from a CFG in any order.
InitOrd ==
    /\ debug_assertions = TRUE
    /\ InitTyStore /\ InitIdx /\ InitGv /\ InitMb /\ InitCmp /\ InitCtx /\ InitDisp /\ InitFn
    /\ InitCfg /\ InitPoIdle
    /\ InitOrdEntry /\ InitRndIdle
NextOrd == OrdAddEdge \/ OrdRemoveEdge
SpecOrd == InitOrd /\ [][NextOrd]_vars

\* Pointer, array and struct types are made, for the accessors.
NextAcc == MakePtr \/ MakeArrayOfThree \/ MakeStructPlain
SpecAcc == InitAll /\ [][NextAcc]_vars

\* Threads render types and global variables while others take write access.
InitRnd ==
    /\ debug_assertions = TRUE
    /\ InitRndStores
    /\ InitIdx /\ InitMb /\ InitCmp /\ InitCtx /\ InitDisp /\ InitFn /\ InitOrdNew
    /\ InitCfg /\ InitPoIdle
    /\ rnd_lock = [st \in Stores |-> RndLockNew]
    /\ rnd_th = [t \in Threads |-> RndIdle]
    /\ writer_priority \in BOOLEAN
NextRnd ==
    \/ RenderType \/ RenderGv \/ GvReadGranted \/ FmtType \/ TyReadGranted \/ FmtReturn
    \/ WriteWanted \/ WriteGranted \/ WriteReturn
SpecRnd == InitRnd /\ [][NextRnd]_vars

(***************************************************************************)
(* Properties.                                                             *)
(***************************************************************************)

\* C1 (SpecTy): no two handles of the store resolve to equal data, and a call
\* whose data was already in the arena allocates nothing and, when it
\* returns, returns the first handle that holds the data.
C1_Interning ==
    /\ \A i, j \in 1..Len(compounds) : compounds[i] = compounds[j] => i = j
    /\ ty_last.first # None =>
            /\ Len(compounds) = ty_last.n_before
            /\ ~ty_last.aborted => ty_last.ret = Compound(ty_last.first)

\* Two handles are issued and a later call hits one of them.
C1_Witness ==
    /\ Len(compounds) = MaxCompounds
    /\ ty_last.first # None
    /\ ~ty_last.aborted
    /\ ty_last.ret = Compound(ty_last.first)

\* C2 (SpecMb): declare_function under a name already carried by a function
\* of the builder aborts, and no two functions of the builder share a name.
C2_DuplicateDeclareAborts ==
    /\ (mb_last.op = "declare_function" /\ mb_last.declared # {}) => mb_last.aborted
    /\ \A name \in FuncNames : Cardinality(RefsOf(TheBuilder, name)) <= 1

\* C3 (SpecMb): get_func_ref of a declared name returns the FuncRef that
\* declare_function returned for it, and None for a name never declared.
C3_GetFuncRefFindsDeclared ==
    mb_last.op = "get_func_ref" =>
        IF mb_last.declared = {} THEN mb_last.ret = None ELSE mb_last.ret \in mb_last.declared

\* C4 (SpecTy): make_struct under a name already registered aborts.
C4_DuplicateStructAborts == ty_last.dup => ty_last.aborted

\* C5 (SpecGv): make_gv with a symbol some stored data already carries aborts,
\* and every symbol is carried by at most one handle.
C5_UniqueSymbols ==
    /\ gv_last.dup => gv_last.aborted /\ gv_last.ret = None
    /\ \A sym \in GvSymbols : Cardinality(HandlesOf(TheGvStore, sym)) <= 1
    /\ \A sym \in GvSymbols :
            IF HandlesOf(TheGvStore, sym) = {}
            THEN gv_by_symbol(TheGvStore, sym) = None
            ELSE gv_by_symbol(TheGvStore, sym) \in HandlesOf(TheGvStore, sym)

\* A duplicate make_gv was refused while the store holds MaxGvs variables.
C5_Witness == gv_last.dup /\ gv_last.aborted /\ Len(gv_data) = MaxGvs

\* C6 (SpecIdx): Type::new(t.index()) is t, and reading a SecondaryMap under
\* a key yields the value last written under that key.
C6_IndexRoundTrip ==
    /\ idx_last.op # "new" => idx_last.back = idx_last.ty
    /\ \A t \in DOMAIN ty_keys : secondary_get(ty_map, t) = ty_keys[t]

\* The edges compute has to find: from each block of the layout that has a
\* last instruction, to each of that instruction's branch destinations.
BranchEdges(func) ==
    {<<u, v>> \in Range(func.layout) \X DOMAIN func.last :
        /\ last_insn_of(func, u) # NoInsn
        /\ v \in analyze_branch(func, last_insn_of(func, u))}

SuccEdges(c) == {<<u, v>> \in (DOMAIN c.blocks) \X (DOMAIN c.blocks) : v \in succs_of(c, u)}
PredEdges(c) == {<<u, v>> \in (DOMAIN c.blocks) \X (DOMAIN c.blocks) : u \in preds_of(c, v)}

\* C7 (SpecCompute): right after compute(func) the successor edges, and the
\* predecessor edges, are exactly the branch edges of func.
C7_ComputeEdges ==
    cfg_last = "compute" =>
        /\ SuccEdges(TheCfg) = BranchEdges(cfg_func)
        /\ PredEdges(TheCfg) = BranchEdges(cfg_func)

\* compute ran on a function with a two-way branch and an empty block.
C7_Witness ==
    /\ cfg_last = "compute"
    /\ \E u \in Blocks : Cardinality(succs_of(TheCfg, u)) >= 2
    /\ \E u \in Range(cfg_func.layout) : last_insn_of(cfg_func, u) = NoInsn
    /\ SuccEdges(TheCfg) = BranchEdges(cfg_func)

\* C8 (SpecCfg): u is a predecessor of v exactly when v is a successor of u.
C8_PredSuccConsistent ==
    \A u, v \in Blocks : u \in preds_of(TheCfg, v) <=> v \in succs_of(TheCfg, u)

\* An edge was removed and another edge is still there, seen from both ends.
C8_Witness ==
    /\ cfg_last = "remove_edge"
    /\ \E u, v \in Blocks :
            /\ u # v
            /\ v \in succs_of(TheCfg, u) /\ u \in preds_of(TheCfg, v)
            /\ u \notin succs_of(TheCfg, v) /\ v \notin preds_of(TheCfg, u)

\* The blocks reachable from the entry along successor edges.
RECURSIVE ReachFrom(_, _)
ReachFrom(c, S) ==
    LET T == S \cup UNION {succs_of(c, b) : b \in S}
    IN  IF T = S THEN S ELSE ReachFrom(c, T)

Reachable(c) == IF entry(c) = None THEN {} ELSE ReachFrom(c, {entry(c)})

\* C9 (SpecPo): every next() returns within the budget; no block is yielded
\* twice; only reachable blocks are yielded (so at most as many yields as
\* blocks); and when next() has returned None, every reachable block was
\* yielded.
C9_PostOrderOnce ==
    /\ po_pc # "diverged"
    /\ \A i, j \in 1..Len(po_out) : i # j => po_out[i] # po_out[j]
    /\ Range(po_out) \subseteq Reachable(TheCfg)
    /\ po_pc = "done" => Range(po_out) = Reachable(TheCfg)

\* The traversal ended having yielded every block, on a CFG with a self-loop,
\* a cycle through the entry, and a block entered from two other blocks.
C9_Witness ==
    /\ po_pc = "done"
    /\ Range(po_out) = PoBlocks
    /\ \E b \in PoBlocks : b \in succs_of(TheCfg, b)
    /\ \E b \in PoBlocks : b # cfg_entry /\ cfg_entry \in succs_of(TheCfg, b)
    /\ \E b \in PoBlocks : Cardinality(preds_of(TheCfg, b) \ {b}) >= 2

\* C10 (SpecCfg): a reverse_edges step taken from a CFG with an entry is undone
\* by reverse_edges with the entry and exits the CFG had before the step.
C10_ReverseTwice ==
    [][(cfg_last' = "reverse_edges" /\ cfg_entry # None)
         => reverse_edges(TheCfg', cfg_entry, cfg_exits) = TheCfg]_vars

\* reverse_edges ran on a CFG with an edge that has no opposite edge, and set
\* a new exit.
C10_Witness ==
    /\ cfg_last = "reverse_edges"
    /\ cfg_exits # <<>>
    /\ \E u, v \in Blocks : v \in succs_of(TheCfg, u) /\ u \notin succs_of(TheCfg, v)

\* The width in bits of an integer type.
BitWidth(t) ==
    CASE t = I1 -> 1 [] t = I8 -> 8 [] t = I16 -> 16 [] t = I32 -> 32
      [] t = I64 -> 64 [] t = I128 -> 128 [] t = I256 -> 256

\* C11 (SpecCmp): on two integer types partial_cmp answers Less exactly when
\* the left one is narrower, Greater exactly when it is wider, and Equal
\* exactly when they are the same type.
C11_IntegerOrder ==
    (cmp_last.op = "partial_cmp" /\ is_integral(cmp_last.lhs) /\ is_integral(cmp_last.rhs)) =>
        /\ cmp_last.ret = "Less" <=> BitWidth(cmp_last.lhs) < BitWidth(cmp_last.rhs)
        /\ cmp_last.ret = "Greater" <=> BitWidth(cmp_last.lhs) > BitWidth(cmp_last.rhs)
        /\ cmp_last.ret = "Equal" <=> cmp_last.lhs = cmp_last.rhs

\* i64 was compared with i32 and found Greater.
C11_Witness ==
    /\ cmp_last.op = "partial_cmp"
    /\ cmp_last.lhs = I64 /\ cmp_last.rhs = I32
    /\ cmp_last.ret = "Greater"

\* C12 (SpecTy): every make_struct(n, f, p) that returned T keeps being found:
\* struct_type_by_name(n) is T and struct_def(T) is exactly (n, f, p), after
\* any further calls that returned.
C12_StructByName ==
    \A i \in 1..Len(struct_decls) :
        /\ struct_type_by_name(TheTypeStore, struct_decls[i].data.name) = struct_decls[i].ret
        /\ struct_def(TheTypeStore, struct_decls[i].ret) = struct_decls[i].data

\* The names of a sequence of declarations, each at its first occurrence.
RECURSIVE FirstNames(_)
FirstNames(decls) ==
    IF decls = <<>>
    THEN <<>>
    ELSE LET front == FirstNames(SubSeq(decls, 1, Len(decls) - 1))
             name  == decls[Len(decls)].data.name
         IN  IF name \in Range(front) THEN front ELSE Append(front, name)

\* C16 (SpecOrder): all_struct_data yields one declaration per declared name,
\* in the order the names were first declared, each being the declaration its
\* name resolves to; all_gv_data yields exactly the data of the make_gv calls
\* that returned, in call order.
C16_DeclarationOrder ==
    /\ [i \in 1..Len(struct_types) |-> all_struct_data(TheTypeStore)[i].name]
            = FirstNames(struct_decls)
    /\ \A i \in 1..Len(struct_types) :
            struct_def(TheTypeStore,
                       struct_type_by_name(TheTypeStore, all_struct_data(TheTypeStore)[i].name))
                = all_struct_data(TheTypeStore)[i]
    /\ all_gv_data(TheGvStore) = gv_made

\* Two structs and two global variables are declared, neither pair in
\* alphabetical order, and a duplicate make_gv was refused.
C16_Witness ==
    /\ Len(struct_types) = 2
    /\ all_struct_data(TheTypeStore)[1].name = "Pair"
    /\ all_struct_data(TheTypeStore)[2].name = "Foo"
    /\ Len(gv_made) = 2
    /\ all_gv_data(TheGvStore)[1].symbol = "foo"
    /\ all_gv_data(TheGvStore)[2].symbol = "bar"
    /\ gv_last.dup /\ gv_last.aborted

\* The threads whose callback of the given kind is executing on the store.
Executing(store, mode) ==
    {t \in Threads : ctx_th[t].pc \in {"cb", "cb2"} /\ ctx_th[t].store = store
                     /\ ctx_th[t].mode = mode}

\* C13 (SpecCtx): on each store at most one with_*_mut callback executes at a
\* time, and none of its read callbacks executes while one does.
C13_ReadersWriters ==
    \A store \in Stores :
        /\ Cardinality(Executing(store, "write")) <= 1
        /\ Executing(store, "write") # {} => Executing(store, "read") = {}

\* Two read callbacks execute on the type store at the same time, after a
\* write callback on it has run.
C13_Witness ==
    /\ Cardinality(Executing("ty", "read")) >= 2
    /\ compounds # <<>>

\* C14 (SpecCtx): no with_* call is ever refused its access: after a callback
\* exited abnormally the guard is gone and later calls run their callbacks.
C14_AccessSurvivesAbort ==
    /\ \A t \in Threads : ctx_th[t].pc # "refused"
    /\ \A store \in Stores :
            /\ ctx_lock[store].writer # None =>
                    ctx_th[ctx_lock[store].writer].pc \in {"cb", "cb2", "ret", "unwind"}
            /\ \A t \in ctx_lock[store].readers : ctx_th[t].pc \in {"cb", "ret", "unwind"}

\* C15 (SpecCtx): a lookup resolving the handle of a make_* that completed
\* before the lookup took its lock gets the data that was interned, and all
\* completed make_* calls on equal data, whatever thread made them, got the
\* same handle.
C15_InterningVisible ==
    /\ \A t \in Threads :
            CtxAt(t, "cb", "ty", "read") \/ CtxAt(t, "ret", "ty", "read") =>
                \A e \in ctx_th[t].known :
                    /\ e.ret < Len(compounds)
                    /\ resolve_compound(TheTypeStore, e.ret) = e.data
    /\ \A t \in Threads :
            CtxAt(t, "ret", "ty", "read") =>
                \A e \in ctx_th[t].known : ctx_th[t].arg = e.ret => ctx_th[t].ret = e.data
    /\ \A t \in Threads : ~CtxAt(t, "unwind", "ty", "read") \/
                          \A e \in ctx_th[t].known : ctx_th[t].arg # e.ret
    /\ \A e1, e2 \in ctx_log : e1.data = e2.data => e1.ret = e2.ret
    /\ \A t \in Threads :
            CtxAt(t, "ret", "ty", "write") =>
                \A e \in ctx_log : e.data = ctx_th[t].arg => e.ret = ctx_th[t].ret

\* A thread interning data that another thread interned before got the same
\* handle.
C15_Witness ==
    \E t \in Threads :
        /\ CtxAt(t, "ret", "ty", "write")
        /\ \E e \in ctx_log : e.by # t /\ e.data = ctx_th[t].arg /\ e.ret = ctx_th[t].ret
        /\ \E e \in ctx_log : e.by = t /\ e.ret = 1

\* Texts joined with a separator between neighbours.
RECURSIVE JoinTexts(_, _)
JoinTexts(texts, sep) ==
    IF texts = <<>> THEN ""
    ELSE IF Len(texts) = 1 THEN texts[1]
    ELSE JoinTexts(SubSeq(texts, 1, Len(texts) - 1), sep) \o sep \o texts[Len(texts)]

\* The text an initialiser should have: a number as such, an array as its
\* elements in order, separated by ", ", inside brackets (a struct inside braces).
RECURSIVE InitialiserText(_)
InitialiserText(cv) ==
    LET inner == JoinTexts([i \in 1..Len(cv.elems) |-> InitialiserText(cv.elems[i])], ", ")
    IN  CASE cv.kind = "Immediate" -> ToString(cv.imm)
          [] cv.kind = "Array" -> "[" \o inner \o "]"
          [] cv.kind = "Struct" -> "{" \o inner \o "}"

\* C17 (SpecDisp): the text of a global variable is the type's text, then
\* " const" exactly when it is const, then a space and the linkage, then a
\* space and the initialiser exactly when there is one; the two examples of
\* the specification render as it says.
C17_GvText ==
    disp_last.op = "display" =>
        LET d == disp_last.d
        IN  /\ disp_last.text =
                    type_text(TheTypeStore, d.ty)
                        \o (IF d.is_const THEN " const" ELSE "")
                        \o " " \o linkage_text(d.linkage)
                        \o (IF d.data = NoData THEN "" ELSE " " \o InitialiserText(d.data))
            /\ (d.ty = I32 /\ d.is_const /\ d.linkage = "Public" /\ d.data = Immediate(1618))
                    => disp_last.text = "i32 const public 1618"
            /\ (/\ d.ty[1] = "Compound"
                /\ resolve_compound(TheTypeStore, d.ty[2]) = Array(I32, 3)
                /\ d.is_const /\ d.linkage = "Private"
                /\ d.data = ConstArray(<<Immediate(8), Immediate(4), Immediate(2)>>))
                    => disp_last.text = "[i32;3] const private [8, 4, 2]"

\* The array example of the specification was rendered.
C17_Witness ==
    /\ disp_last.op = "display"
    /\ disp_last.text = "[i32;3] const private [8, 4, 2]"

\* C18: the function Function::new returns has one argument value per argument
\* of its signature; the values are pairwise distinct, and the i-th is defined
\* in the function's data-flow graph as argument number i, of the type of the
\* signature's i-th argument.
C18_ArgValues ==
    fn_last.op = "new" =>
        LET func == fn_last.func
            n    == Len(func.sig.args)
        IN /\ Len(func.arg_values) = n
           /\ \A i, j \in 1..n : i # j => func.arg_values[i] # func.arg_values[j]
           /\ \A i \in 1..n :
                /\ func.arg_values[i] \in 0..(Len(func.dfg.values) - 1)
                /\ func.dfg.values[func.arg_values[i] + 1] =
                        [kind |-> "Arg", ty |-> func.sig.args[i], idx |-> i - 1]

\* a function of three arguments, two of them of the same type
C18_Witness ==
    /\ fn_last.op = "new"
    /\ fn_last.func.sig.args = <<I32, Compound(0), I32>>
    /\ fn_last.func.arg_values = <<0, 1, 2>>

\* C19 (SpecDag): on an acyclic CFG every block is yielded after all of its
\* successors; the entry is yielded by the last call that yields a block, and
\* by then every reachable block was yielded; the diamond bb0 -> {bb1, bb2}
\* -> bb3 is yielded as bb3, bb1, bb2, bb0 or as bb3, bb2, bb1, bb0.
C19_DagPostOrder ==
    /\ po_pc # "diverged"
    /\ \A i \in 1..Len(po_out) :
            /\ succs_of(TheCfg, po_out[i]) \subseteq {po_out[j] : j \in 1..(i - 1)}
            /\ po_out[i] = cfg_entry => i = Len(po_out)
    /\ (po_pc = "done" /\ cfg_entry # None) =>
            /\ po_out # <<>>
            /\ po_out[Len(po_out)] = cfg_entry
            /\ Range(po_out) = Reachable(TheCfg)
    /\ (po_pc = "done" /\ TheCfg = DiamondCfg) =>
            po_out \in {<<3, 1, 2, 0>>, <<3, 2, 1, 0>>}

\* The traversal of the diamond has ended.
C19_Witness ==
    /\ po_pc = "done"
    /\ TheCfg = DiamondCfg
    /\ Len(po_out) = 4

\* C20 (SpecCompute): right after compute(func), whatever the CFG held before,
\* the CFG is the one compute(func) gives on a new CFG, and computing func
\* once more gives the same CFG again.
C20_ComputeFresh ==
    cfg_last = "compute" =>
        /\ TheCfg = compute(cfg_new(Blocks), cfg_func)
        /\ compute(TheCfg, cfg_func) = TheCfg

\* compute ran on a CFG holding another entry, an edge and an exit that the
\* function does not have, and the function has an edge and an exit of its own.
C20_Witness ==
    /\ cfg_last = "compute"
    /\ cfg_stale
    /\ cfg_exits # <<>>
    /\ \E u \in Blocks : succs_of(TheCfg, u) # {}

\* The blocks of the layout whose last instruction is a return, in layout order.
RECURSIVE ReturnBlocks(_, _)
ReturnBlocks(func, i) ==
    IF i > Len(func.layout)
    THEN <<>>
    ELSE (IF last_insn_of(func, func.layout[i]).is_return THEN <<func.layout[i]>> ELSE <<>>)
            \o ReturnBlocks(func, i + 1)

\* C21 (SpecExits): after compute(func) the exits are the blocks of the layout
\* that end in a return, each once and in layout order, and the entry is the
\* first block of the layout (none for an empty layout); a function of the
\* single block bb0 ending in a return gives entry bb0, exits [bb0] and the
\* post-order bb0.
C21_ExitsAndEntry ==
    cfg_last = "compute" =>
        /\ cfg_exits = ReturnBlocks(cfg_func, 1)
        /\ cfg_entry = (IF cfg_func.layout = <<>> THEN None ELSE cfg_func.layout[1])
        /\ (cfg_func.layout = <<0>> /\ last_insn_of(cfg_func, 0).is_return) =>
                /\ cfg_entry = 0
                /\ cfg_exits = <<0>>
                /\ po_out \in {<<>>, <<0>>}
                /\ po_pc = "done" => po_out = <<0>>

\* The layout lists bb1 before bb0 and both end in a return; the computed CFG
\* was traversed to the end.
C21_Witness ==
    /\ cfg_last = "compute"
    /\ cfg_func.layout = <<1, 0>>
    /\ cfg_exits = <<1, 0>>
    /\ po_pc = "done"
    /\ po_out = <<1>>

\* The edges of the CFG kept in ord_blocks, by its successor sequences.
OrdEdges == {e \in PoBlocks \X PoBlocks : e[2] \in Range(ord_blocks[e[1]].succs)}

\* The CFG add_edge builds from a new one when it is given the edges of the
\* sequence `edges` one after the other.
RECURSIVE OrdBuild(_, _)
OrdBuild(blocks, edges) ==
    IF edges = <<>>
    THEN blocks
    ELSE OrdBuild(ord_add_edge(blocks, edges[1][1], edges[1][2]), Tail(edges))

\* The edges E, the ones leaving the highest block first and, of one block,
\* the one to the highest block first.
RECURSIVE DescendingEdges(_)
DescendingEdges(E) ==
    IF E = {}
    THEN <<>>
    ELSE LET m == CHOOSE e \in E :
                    \A f \in E : f[1] < e[1] \/ (f[1] = e[1] /\ f[2] <= e[2])
         IN  <<m>> \o DescendingEdges(E \ {m})

\* C22 (SpecOrd): however the edges of the CFG were added and removed, the
\* iteration order of every block's predecessors and successors, and the
\* sequence post_order yields, are those of the CFG with the same entry that
\* is built from a new one by adding the same edges once each, highest first.
C22_OrderByEdgesAlone ==
    LET other == OrdBuild([b \in PoBlocks |-> OrdNodeDefault], DescendingEdges(OrdEdges))
    IN  /\ \A b \in PoBlocks :
                /\ ord_blocks[b].succs = other[b].succs
                /\ ord_blocks[b].preds = other[b].preds
        /\ OrdPostOrder(ord_entry, ord_blocks) = OrdPostOrder(ord_entry, other)

\* bb0 has gained the successor bb1 after bb2; its successors are iterated
\* as bb1, bb2 and the traversal from bb0 yields bb2, bb1, bb0.
C22_Witness ==
    /\ ord_last = "add_before"
    /\ ord_blocks[0].succs = <<1, 2>>
    /\ ord_blocks[1].succs = <<2>>
    /\ OrdPostOrder(ord_entry, ord_blocks) = <<2, 1, 0>>

\* C23 (SpecCmp): two different types of which one is void or a compound type
\* are unordered, whichever is on the left; a type compared with itself is
\* Equal, void and compound types included.
C23_Unordered ==
    cmp_last.op = "partial_cmp" =>
        /\ (cmp_last.lhs # cmp_last.rhs
                /\ (~is_integral(cmp_last.lhs) \/ ~is_integral(cmp_last.rhs))) =>
              /\ cmp_last.ret = "None"
              /\ partial_cmp(cmp_last.rhs, cmp_last.lhs) = "None"
        /\ cmp_last.lhs = cmp_last.rhs => cmp_last.ret = "Equal"

\* A compound type was compared with itself.
C23_Witness ==
    /\ cmp_last.op = "partial_cmp"
    /\ cmp_last.lhs = Compound(1) /\ cmp_last.rhs = Compound(1)
    /\ cmp_last.ret = "Equal"
    /\ partial_cmp(Compound(1), Void) = "None"

\* C24 (SpecGv): for every make_gv(d) that returned a handle g, whatever calls
\* followed (refused duplicates included), gv_data(g) is d, gv_by_symbol of
\* d's symbol is g, and init_data, is_const and ty of g are d's; gv_by_symbol
\* of a symbol no returned call carried is None.
C24_GvStable ==
    /\ \A i \in 1..Len(gv_made) :
            LET d == gv_made[i]
                g == gv_handles[i]
            IN  /\ g \in 0..(Len(gv_data) - 1)
                /\ gv_data_of(TheGvStore, g) = d
                /\ gv_by_symbol(TheGvStore, d.symbol) = g
                /\ gv_init_data(TheGvStore, g) = d.data
                /\ gv_is_const(TheGvStore, g) = d.is_const
                /\ gv_ty(TheGvStore, g) = d.ty
    /\ \A sym \in GvSymbols \cup {"qux"} :
            (\A i \in 1..Len(gv_made) : gv_made[i].symbol # sym)
                => gv_by_symbol(TheGvStore, sym) = None

\* Two variables were made, the first a constant with an initialiser, the
\* second neither; then a make_gv of a symbol already registered was
\* refused.
C24_Witness ==
    /\ Len(gv_made) = 2
    /\ gv_made[1].is_const /\ gv_made[1].data = Immediate(1618)
    /\ ~gv_made[2].is_const /\ gv_made[2].data = NoData
    /\ gv_last.aborted /\ gv_last.dup
    /\ gv_handles = <<0, 1>>

\* The types that exist: the primitive ones and the handles of the store.
StoreTypes == PrimitiveTypes \cup {Compound(c) : c \in 0..(Len(compounds) - 1)}

\* C25 (SpecAcc): in every state of the store, the type make_ptr(t) returns
\* dereferences to t, the type make_array(e, n) returns has the array
\* definition (e, n), and the type make_struct returns has the struct data
\* given; and for every type that exists, deref answers Some exactly for a
\* pointer, array_def exactly for an array and struct_def exactly for a struct,
\* each with the data the type was created from, and None for every primitive
\* type and void.
C25_Accessors ==
    /\ \A t \in ArgTypes :
            CanIntern(Ptr(t)) =>
                LET r == make_ptr(TheTypeStore, t) IN deref(r.s, r.ret) = t
    /\ \A e \in ArgTypes, n \in ArrayLens :
            CanIntern(Array(e, n)) =>
                LET r == make_array(TheTypeStore, e, n) IN array_def(r.s, r.ret) = <<e, n>>
    /\ \A name \in StructNames, fields \in FieldLists, packed \in BOOLEAN :
            CanIntern(Struct(name, fields, packed)) =>
                LET r == make_struct(TheTypeStore, name, fields, packed, debug_assertions)
                IN  ~r.aborted => struct_def(r.s, r.ret) = Struct(name, fields, packed)
    /\ \A data \in DOMAIN rev_types :
            LET ty == Compound(rev_types[data])
            IN  /\ deref(TheTypeStore, ty) = (IF data.kind = "Ptr" THEN data.elem ELSE NoType)
                /\ array_def(TheTypeStore, ty) =
                        (IF data.kind = "Array" THEN <<data.elem, data.len>> ELSE NoArrayDef)
                /\ struct_def(TheTypeStore, ty) =
                        (IF data.kind = "Struct" THEN data ELSE NoStructData)
    /\ \A ty \in StoreTypes :
            /\ deref(TheTypeStore, ty) # NoType
                    <=> (ty[1] = "Compound" /\ compounds[ty[2] + 1].kind = "Ptr")
            /\ array_def(TheTypeStore, ty) # NoArrayDef
                    <=> (ty[1] = "Compound" /\ compounds[ty[2] + 1].kind = "Array")
            /\ struct_def(TheTypeStore, ty) # NoStructData
                    <=> (ty[1] = "Compound" /\ compounds[ty[2] + 1].kind = "Struct")

\* make_ptr has just returned a pointer to an array type: the pointer
\* dereferences to the array type, which is no pointer itself.
C25_Witness ==
    /\ ty_last.op = "make_ptr"
    /\ deref(TheTypeStore, ty_last.ret) = Compound(0)
    /\ array_def(TheTypeStore, Compound(0)) = <<I32, 3>>
    /\ deref(TheTypeStore, Compound(0)) = NoType
    /\ struct_def(TheTypeStore, ty_last.ret) = NoStructData

\* C27 (SpecTy): a make_struct call that aborts because its name is already
\* declared leaves the arena of compound types, the reverse map and the
\* name-to-type map as they were before the call.
C27_AbortLeavesStore ==
    [][(ty_last'.op = "make_struct" /\ ty_last'.aborted)
            => /\ compounds' = compounds
               /\ rev_types' = rev_types
               /\ struct_types' = struct_types]_vars

\* C26 (SpecRnd): a rendering always completes: no state is reached in which
\* a rendering thread waits for read access to a store of which it holds a
\* read guard while a writer waits for the same store, the writer held back
\* by that guard and the thread by the writer.
C26_RenderingCompletes ==
    \A t \in Threads :
        ~(/\ rnd_th[t].pc = "want_ty"
          /\ rnd_lock["ty"].readers[t] > 0
          /\ rnd_lock["ty"].waiting # {}
          /\ ~rnd_can_read(rnd_lock["ty"], writer_priority))

====
